---------------------------- MODULE Spec2Model ----------------------------
(***************************************************************************)
(* Model of the conversion layer of the style-pipeline server:             *)
(*   app/classifiers/face.py, body.py, skin.py   (shape / tone labels)     *)
(*   app/services/feature_builder.py             (31-dim feature vector)   *)
(*   app/services/outfit_embedding.py            (6-dim style vector)      *)
(*                                                                         *)
(* Every handler is a request: it runs from the idle state, leaves its     *)
(* result in its own variable, and Respond hands the result back and       *)
(* forgets it (nothing but the CSV log survives a request).                *)
(*                                                                         *)
(* Numbers.  The code computes in floating point; the model computes the   *)
(* same expressions exactly, on integers:                                  *)
(*   - a length is an integer number of units of 1e-6 pixel (PxLen units   *)
(*     make a pixel), so that the code's guard `x + 1e-6` is `x + EpsLen`; *)
(*   - a quotient is kept as the fraction [n |-> , d |-> ] (d > 0) and is  *)
(*     compared with a threshold by cross-multiplication, so no rounding   *)
(*     happens; thresholds are written in thousandths (1.40 is 1400);      *)
(*   - color means are in tenths, feature-vector components in 1e-4.       *)
(***************************************************************************)
EXTENDS Integers, Sequences, FiniteSets

VARIABLES
    pc,     \* "idle", or the handler whose result is waiting to be returned
    found,  \* what the external detector of the running request reported
    face,   \* result of classify_face_shape, or None
    body,   \* result of classify_body_shape, or None
    skin,   \* result of classify_skin_tone, or None
    fv,     \* call and result of build_feature_vector, or None
    sv,     \* call and result of style_to_vec, or None
    cloth,  \* result of analyze_clothes_from_url, or None
    prev,   \* an earlier call of style_to_vec that its caller kept, or None
    matched, \* call and result of cosine or match_user_to_references, or None
    log,    \* rows of face_shape_log.csv
    calls,  \* the concurrent callers of classify_face_shape: where each is
    merged,      \* call and result of merge_outfit_jsons, or None
    analyses,    \* call and result of analyze_all_body_images, or None
    cloth_items  \* call and result of outfit_to_cloth_like_items, or None

vars == <<pc, found, face, body, skin, fv, sv, cloth, prev, matched, log, calls,
          merged, analyses, cloth_items>>

(* ------------------------------ bounds --------------------------------- *)
\* how far (in grid steps) the drawn measurements stray around each threshold
Spread == 1
\* face_shape_log.csv is cut off after this many data rows
MaxLogRows == 1
\* the drawn image is ImgSide x ImgSide pixels
ImgSide == 8

(* --------------------------- shared helpers ---------------------------- *)
\* Python's None and a present value
None == <<>>
Some(x) == <<x>>

\* 1e-6, in length units of 1e-6; and one pixel
EpsLen == 1
PxLen == 10^6

\* the fraction n/d
Frac(n, d) == [n |-> n, d |-> d]

\* x * t for x >= 0, t >= 0 as two words <<high, low>> of base 10^6, so that
\* products of pixel-sized lengths stay inside 32-bit integers
Word == 10^6
Wide(x, t) ==
    LET lo == (x % Word) * t
    IN  <<(x \div Word) * t + lo \div Word, lo % Word>>
WideLe(a, b) == a[1] < b[1] \/ (a[1] = b[1] /\ a[2] <= b[2])

\* comparisons of a fraction (d > 0) with a threshold t >= 0 in thousandths
Ge(r, t) == r.n >= 0 /\ WideLe(Wide(r.d, t), Wide(r.n, 1000))
Le(r, t) == r.n < 0 \/ WideLe(Wide(r.n, 1000), Wide(r.d, t))
Gt(r, t) == ~Le(r, t)
Lt(r, t) == ~Ge(r, t)

Abs(x) == IF x < 0 THEN -x ELSE x
Max(a, b) == IF a >= b THEN a ELSE b
Min(a, b) == IF a <= b THEN a ELSE b

\* cv2.imencode on the debug overlay: bytes when asked for and encoded, else b""
DebugPng(return_debug, encode_ok) ==
    IF return_debug /\ encode_ok THEN "png" ELSE ""

(* =============================== face ================================== *)
FaceLabels == {"oval", "round", "square", "heart", "oblong", "unknown"}

\* FaceRule with the first rule strict (R > 1.40)
FaceRule_StrictOblong(R, J) ==
    IF Gt(R, 1400) THEN "oblong"
    ELSE IF Lt(J, 900) /\ Ge(R, 1200) THEN "heart"
    ELSE IF Le(R, 1140) THEN
             IF Ge(J, 1110) THEN "round"
             ELSE IF Ge(J, 1060) THEN "oval"
             ELSE "round"
    ELSE IF Le(R, 1220) THEN
             IF Ge(J, 1070) THEN "square" ELSE "oval"
    ELSE IF Ge(J, 1100) THEN "square" ELSE "oval"

\* the ordered rules of classify_face_shape on R and J (fractions)
FaceRule(R, J) ==
    IF Ge(R, 1400) THEN "oblong"
    ELSE IF Lt(J, 900) /\ Ge(R, 1200) THEN "heart"
    ELSE IF Le(R, 1140) THEN
             IF Ge(J, 1110) THEN "round"
             ELSE IF Ge(J, 1060) THEN "oval"
             ELSE "round"
    ELSE IF Le(R, 1220) THEN
             IF Ge(J, 1070) THEN "square" ELSE "oval"
    ELSE IF Ge(J, 1100) THEN "square" ELSE "oval"

\* the measurements and ratios of a detected face
FaceMetrics(face_width, face_length, forehead_width) ==
    [ face_width         |-> face_width,
      face_length        |-> face_length,
      forehead_width     |-> forehead_width,
      jaw_width_est      |-> Frac(9 * face_width, 10),
      ratio_len_width    |-> Frac(face_length, face_width + EpsLen),
      ratio_jaw_forehead |-> Frac(9 * face_width, 10 * (forehead_width + EpsLen)) ]

\* log_face_shape: the header goes in front of the first row of a missing file
LogFaceShape(rows) ==
    IF rows = <<>> THEN <<"header", "data">> ELSE Append(rows, "data")

\* the result of classify_face_shape
FaceResult(detected, face_width, face_length, forehead_width, return_debug, encode_ok) ==
    IF ~detected
    THEN [ face_shape |-> "unknown", metrics |-> None, debug |-> "no_face",
           debug_png |-> "" ]
    ELSE LET m == FaceMetrics(face_width, face_length, forehead_width)
         IN  [ face_shape |-> FaceRule(m.ratio_len_width, m.ratio_jaw_forehead),
               metrics    |-> Some(m),
               debug      |-> "ok",
               debug_png  |-> DebugPng(return_debug, encode_ok) ]

\* thresholds of the face rules, in thousandths
FaceRThresholds == {1140, 1200, 1220, 1400}
FaceJThresholds == {900, 1060, 1070, 1100, 1110}

\* face widths at which every threshold of R, and one threshold of J each,
\* is met exactly by whole lengths; 0 is the degenerate face
FaceWidths == {0, 99, 749, 999, 1749}

NearAll(S) == { x + dlt : x \in S, dlt \in (0 - Spread)..Spread } \cap Nat

FaceLengths(W) ==
    {0} \cup NearAll({ (t * (W + EpsLen)) \div 1000 : t \in FaceRThresholds })

ForeheadWidths(W) ==
    {0} \cup NearAll({ (900 * W) \div t - EpsLen : t \in FaceJThresholds })

ClassifyFace ==
    /\ pc = "idle"
    /\ \E detected \in BOOLEAN, return_debug \in BOOLEAN, encode_ok \in BOOLEAN :
       \E W \in FaceWidths :
       \E L \in FaceLengths(W), F \in ForeheadWidths(W) :
          /\ detected => Len(log) <= MaxLogRows
          /\ face' = Some(FaceResult(detected, W, L, F, return_debug, encode_ok))
          /\ log' = IF detected THEN LogFaceShape(log) ELSE log
          /\ found' = [mesh |-> detected]
    /\ pc' = "face"
    /\ UNCHANGED <<body, skin, fv, sv, cloth, prev, matched, calls,
                 merged, analyses, cloth_items>>

(* =============================== body ================================== *)
BodyLabels == {"inverted_triangle", "triangle", "hourglass", "rectangle",
               "balanced", "inverted_rectangle", "unknown"}

\* 1.0 - w for a fraction w
Drop(w) == Frac(w.d - w.n, w.d)
AbsFrac(r) == Frac(Abs(r.n), r.d)

\* BodyRule with the outlier test inclusive (s_h >= 1.9 or s_h <= 0.6)
BodyRule_InclusiveOutlier(s_h, w_s, w_h) ==
    LET drop_s == Drop(w_s)
        drop_h == Drop(w_h)
    IN  IF Ge(s_h, 1900) \/ Le(s_h, 600)
        THEN [body |-> "unknown", debug_flag |-> "ratio_outlier"]
        ELSE [body |->
                IF Ge(w_s, 1100) /\ Ge(w_h, 1050) THEN "inverted_rectangle"
                ELSE IF Ge(s_h, 1250) /\ Lt(drop_h, 120) THEN "inverted_triangle"
                ELSE IF Le(s_h, 850) /\ Lt(drop_h, 120) THEN "triangle"
                ELSE IF Ge(drop_s, 180) /\ Ge(drop_h, 120) THEN "hourglass"
                ELSE IF Le(AbsFrac(drop_s), 120) /\ Le(AbsFrac(drop_h), 120)
                     THEN "rectangle"
                ELSE "balanced",
              debug_flag |-> "ok"]

\* the ordered rules of classify_body_shape on the three ratios
BodyRule(s_h, w_s, w_h) ==
    LET drop_s == Drop(w_s)
        drop_h == Drop(w_h)
    IN  IF Gt(s_h, 1900) \/ Lt(s_h, 600)
        THEN [body |-> "unknown", debug_flag |-> "ratio_outlier"]
        ELSE [body |->
                IF Ge(w_s, 1100) /\ Ge(w_h, 1050) THEN "inverted_rectangle"
                ELSE IF Ge(s_h, 1250) /\ Lt(drop_h, 120) THEN "inverted_triangle"
                ELSE IF Le(s_h, 850) /\ Lt(drop_h, 120) THEN "triangle"
                ELSE IF Ge(drop_s, 180) /\ Ge(drop_h, 120) THEN "hourglass"
                ELSE IF Le(AbsFrac(drop_s), 120) /\ Le(AbsFrac(drop_h), 120)
                     THEN "rectangle"
                ELSE "balanced",
              debug_flag |-> "ok"]

\* a width measured on the mask row if that succeeded, else the landmark distance
WidthOr(seg_width, lm_width) ==
    IF seg_width # None THEN seg_width[1] ELSE lm_width

RECURSIVE SumSeq(_)
SumSeq(s) == IF s = <<>> THEN 0 ELSE s[1] + SumSeq(Tail(s))

\* the widths of the waist rows that could be measured, in row order
RECURSIVE Measured(_)
Measured(rows) ==
    IF rows = <<>> THEN <<>>
    ELSE IF rows[1] = None THEN Measured(Tail(rows))
    ELSE <<rows[1][1]>> \o Measured(Tail(rows))

\* the waist width (a fraction of a length): the mean of the measured rows,
\* or the mean of shoulder and hip width when no row could be measured
WaistWidth(waist_widths, shoulder_width, hip_width) ==
    IF Len(waist_widths) = 0
    THEN Frac(shoulder_width + hip_width, 2)
    ELSE Frac(SumSeq(waist_widths), Len(waist_widths))

\* BodyMetrics dividing by the widths themselves, without eps
BodyMetrics_NoEps(shoulder_lm, hip_lm, shoulder_seg, hip_seg, waist_rows) ==
    LET shoulder_width == WidthOr(shoulder_seg, shoulder_lm)
        hip_width      == WidthOr(hip_seg, hip_lm)
        waist_widths   == Measured(waist_rows)
        waist_width    == WaistWidth(waist_widths, shoulder_width, hip_width)
    IN  [ shoulder_width_seg |-> shoulder_width,
          hip_width_seg      |-> hip_width,
          waist_width_seg    |-> waist_width,
          shoulder_width_lm  |-> shoulder_lm,
          hip_width_lm       |-> hip_lm,
          s_h |-> Frac(shoulder_width, hip_width),
          w_s |-> Frac(waist_width.n, waist_width.d * shoulder_width),
          w_h |-> Frac(waist_width.n, waist_width.d * hip_width),
          waist_from_seg |-> (Len(waist_widths) # 0) ]

BodyMetrics(shoulder_lm, hip_lm, shoulder_seg, hip_seg, waist_rows) ==
    LET shoulder_width == WidthOr(shoulder_seg, shoulder_lm)
        hip_width      == WidthOr(hip_seg, hip_lm)
        waist_widths   == Measured(waist_rows)
        waist_width    == WaistWidth(waist_widths, shoulder_width, hip_width)
    IN  [ shoulder_width_seg |-> shoulder_width,
          hip_width_seg      |-> hip_width,
          waist_width_seg    |-> waist_width,
          shoulder_width_lm  |-> shoulder_lm,
          hip_width_lm       |-> hip_lm,
          s_h |-> Frac(shoulder_width, hip_width + EpsLen),
          w_s |-> Frac(waist_width.n, waist_width.d * (shoulder_width + EpsLen)),
          w_h |-> Frac(waist_width.n, waist_width.d * (hip_width + EpsLen)),
          waist_from_seg |-> (Len(waist_widths) # 0) ]

\* BodyResult testing the segmentation mask before the pose landmarks
BodyResult_SegFirst(pose, seg, shoulder_lm, hip_lm, shoulder_seg, hip_seg, waist_rows, return_debug, encode_ok) ==
    IF ~seg
    THEN [ body_shape |-> "unknown", metrics |-> None, debug |-> "no_segmentation",
           debug_png |-> "" ]
    ELSE IF ~pose
    THEN [ body_shape |-> "unknown", metrics |-> None, debug |-> "no_pose",
           debug_png |-> "" ]
    ELSE LET m == BodyMetrics(shoulder_lm, hip_lm, shoulder_seg, hip_seg, waist_rows)
             r == BodyRule(m.s_h, m.w_s, m.w_h)
         IN  [ body_shape |-> r.body,
               metrics    |-> Some(m),
               debug      |-> r.debug_flag,
               debug_png  |-> DebugPng(return_debug, encode_ok) ]

\* the result of classify_body_shape
BodyResult(pose, seg, shoulder_lm, hip_lm, shoulder_seg, hip_seg, waist_rows, return_debug, encode_ok) ==
    IF ~pose
    THEN [ body_shape |-> "unknown", metrics |-> None, debug |-> "no_pose",
           debug_png |-> "" ]
    ELSE IF ~seg
    THEN [ body_shape |-> "unknown", metrics |-> None, debug |-> "no_segmentation",
           debug_png |-> "" ]
    ELSE LET m == BodyMetrics(shoulder_lm, hip_lm, shoulder_seg, hip_seg, waist_rows)
             r == BodyRule(m.s_h, m.w_s, m.w_h)
         IN  [ body_shape |-> r.body,
               metrics    |-> Some(m),
               debug      |-> r.debug_flag,
               debug_png  |-> DebugPng(return_debug, encode_ok) ]

\* thresholds of the body rules, in thousandths: of s_h, and of the waist ratios
\* (1 - 0.18, 1 - 0.12, 1.05, 1.10, 1 + 0.12)
BodySThresholds == {600, 850, 1250, 1900}
BodyWThresholds == {820, 880, 1050, 1100, 1120}

\* the hip of the drawn bodies: a landmark distance just under 100 px (so that
\* hip_width + 1e-6 is 100 px and every threshold is met exactly), the mask
\* width 100 px, and the degenerate hips: coinciding landmarks, landmarks
\* 1e-6 px apart, and a mask row with a single pixel (x_max = x_min)
BodyHips ==
    { [lm |-> 100 * PxLen - EpsLen, seg |-> None],
      [lm |-> 97 * PxLen, seg |-> Some(100 * PxLen)],
      [lm |-> 0, seg |-> None],
      [lm |-> EpsLen, seg |-> None],
      [lm |-> 97 * PxLen, seg |-> Some(0)] }

\* shoulders: landmark distances within a few 1e-6 px of each threshold of s_h,
\* mask widths within a few pixels of it; and the degenerate shoulders:
\* coinciding landmarks, landmarks 1e-6 and 2e-6 px apart, a mask row with a
\* single pixel
BodyShoulders ==
    { [lm |-> x, seg |-> None] :
        x \in {0, EpsLen, 2 * EpsLen, 100 * PxLen - EpsLen}
               \cup NearAll({ (t \div 10) * PxLen : t \in BodySThresholds }) }
    \cup
    { [lm |-> 103 * PxLen, seg |-> Some(k * PxLen)] :
        k \in {0, 100} \cup NearAll({ t \div 10 : t \in BodySThresholds }) }

\* the five waist rows (dy = -4, -2, 0, 2, 4): none measured, the middle one
\* measured, or the outer two measured with widths one pixel apart
BodyWaistPx == {0} \cup NearAll({ t \div 10 : t \in BodyWThresholds })
BodyWaistRows ==
    { <<None, None, None, None, None>> }
    \cup { <<None, None, Some(k * PxLen), None, None>> : k \in BodyWaistPx }
    \cup { <<Some(k * PxLen), None, None, None, Some((k + 1) * PxLen)>> :
              k \in BodyWaistPx }

ClassifyBody ==
    /\ pc = "idle"
    /\ \E pose \in BOOLEAN, seg \in BOOLEAN, return_debug \in BOOLEAN,
          encode_ok \in BOOLEAN :
       \E sh \in BodyShoulders, hip \in BodyHips, rows \in BodyWaistRows :
          /\ body' = Some(BodyResult(pose, seg, sh.lm, hip.lm, sh.seg, hip.seg,
                                     rows, return_debug, encode_ok))
          /\ found' = [pose |-> pose, seg |-> pose /\ seg]
    /\ pc' = "body"
    /\ UNCHANGED <<face, skin, fv, sv, log, cloth, prev, matched, calls,
                 merged, analyses, cloth_items>>

(* -------------------------- body, on the mask -------------------------- *)
\* The segmentation mask is a sequence of rows (row y is seg[y + 1]) of values
\* in thousandths; a landmark is a point [x, y] in whole pixels; a y
\* coordinate between rows is kept in hundredths of a pixel.
Thr == 500
YUnit == 10^2

\* int(round(y)) for y in hundredths: Python rounds a tie to the even integer
RoundHalfEven(y) ==
    LET fl  == y \div YUnit
        rem == y % YUnit
    IN  IF 2 * rem < YUnit THEN fl
        ELSE IF 2 * rem > YUnit THEN fl + 1
        ELSE IF fl % 2 = 0 THEN fl ELSE fl + 1

\* _seg_row_width with the threshold inclusive (row >= thr)
SegRowWidth_Inclusive(seg, y) ==
    LET y_i == RoundHalfEven(y)
    IN  IF y_i < 0 \/ y_i >= Len(seg) THEN None
        ELSE LET row == seg[y_i + 1]
                 xs  == { x \in 1..Len(row) : row[x] >= Thr }
             IN  IF xs = {} THEN None
                 ELSE LET x_min == CHOOSE x \in xs : \A z \in xs : x <= z
                          x_max == CHOOSE x \in xs : \A z \in xs : x >= z
                      IN  Some((x_max - x_min) * PxLen)

\* _seg_row_width: the width x_max - x_min of the row at int(round(y)), as a
\* length, or None (x_min and x_max themselves reach no result)
SegRowWidth(seg, y) ==
    LET y_i == RoundHalfEven(y)
    IN  IF y_i < 0 \/ y_i >= Len(seg) THEN None
        ELSE LET row == seg[y_i + 1]
                 xs  == { x \in 1..Len(row) : row[x] > Thr }
             IN  IF xs = {} THEN None
                 ELSE LET x_min == CHOOSE x \in xs : \A z \in xs : x <= z
                          x_max == CHOOSE x \in xs : \A z \in xs : x >= z
                      IN  Some((x_max - x_min) * PxLen)

\* (a[1] + b[1]) * 0.5, in hundredths
MidY(a, b) == (a.y + b.y) * (YUnit \div 2)

\* y_waist with t_waist = 0.5, midway between shoulder and hip
WaistY_Midway(y_shoulder, y_hip) == (5 * y_shoulder + 5 * y_hip) \div 10

\* y_waist = (1.0 - t_waist) * y_shoulder + t_waist * y_hip with t_waist = 0.6
WaistY(y_shoulder, y_hip) == (4 * y_shoulder + 6 * y_hip) \div 10

\* the loop over dy of classify_body_shape: what each of the five rows gave
WaistDys == <<0 - 4, 0 - 2, 0, 2, 4>>
WaistRows(seg, y_waist) ==
    [i \in 1..Len(WaistDys) |-> SegRowWidth(seg, y_waist + WaistDys[i] * YUnit)]

\* np.linalg.norm(q - p) as a length; the drawn landmark pairs are a whole
\* number of pixels apart
Dist(p, q) ==
    LET dx == Abs(q.x - p.x)
        dy == Abs(q.y - p.y)
    IN  PxLen * (CHOOSE n \in 0..(dx + dy) : n * n = dx * dx + dy * dy)

\* classify_body_shape on detected pose landmarks and a segmentation mask
classify_body_shape(seg, LSh, RSh, LHip, RHip, return_debug, encode_ok) ==
    LET y_shoulder == MidY(LSh, RSh)
        y_hip      == MidY(LHip, RHip)
        y_waist    == WaistY(y_shoulder, y_hip)
        res == BodyResult(TRUE, TRUE, Dist(LSh, RSh), Dist(LHip, RHip),
                          SegRowWidth(seg, y_shoulder), SegRowWidth(seg, y_hip),
                          WaistRows(seg, y_waist), return_debug, encode_ok)
        m == res.metrics[1]
        ys == [y_shoulder |-> y_shoulder, y_waist |-> y_waist, y_hip |-> y_hip]
    IN  [res EXCEPT !.metrics =
           Some([k \in DOMAIN m \cup DOMAIN ys |->
                   IF k \in DOMAIN ys THEN ys[k] ELSE m[k]])]

\* rows of the drawn masks, ImgSide pixels wide: nothing; every pixel exactly
\* at the threshold; a single foreground pixel; and a silhouette whose edges
\* (values just above the threshold and 1.0, nothing between them) move with
\* the row, next to a pixel at the threshold
MaskRow(kind, y) ==
    [x \in 1..ImgSide |->
        CASE kind = "blank" -> 0
          [] kind = "edge"  -> Thr
          [] kind = "dot"   -> IF x = 3 THEN 1000 ELSE 0
          [] OTHER -> IF x = 2 + (y % 3) THEN Thr + 1
                      ELSE IF x = ImgSide - (y % 2) THEN 1000
                      ELSE IF x = 1 THEN Thr
                      ELSE 0]

\* the drawn masks: any set of rows holds the figure
Masks ==
    { [r \in 1..ImgSide |->
         IF (r - 1) \in fg THEN MaskRow(figure, r - 1) ELSE MaskRow(ground, r - 1)] :
        fg \in SUBSET (0..(ImgSide - 1)), figure \in {"dot", "wedge"},
        ground \in {"blank", "edge"} }

Pt(x, y) == [x |-> x, y |-> y]

\* shoulder and hip landmark pairs: level, slanted (3-4-5), one above the
\* other (y between two rows), and outside the image
ShoulderPairs ==
    { <<Pt(2, 1), Pt(5, 1)>>, <<Pt(1, 2), Pt(4, 6)>>, <<Pt(3, 0), Pt(3, 1)>>,
      <<Pt(0, 0 - 2), Pt(4, 0 - 2)>> }
HipPairs ==
    { <<Pt(2, 6), Pt(6, 6)>>, <<Pt(2, 7), Pt(2, 8)>>, <<Pt(3, 4), Pt(3, 5)>>,
      <<Pt(1, 12), Pt(4, 12)>> }

ClassifyBodyOnMask ==
    /\ pc = "idle"
    /\ \E seg \in Masks, sh \in ShoulderPairs, hip \in HipPairs,
          return_debug \in BOOLEAN :
          /\ body' = Some(classify_body_shape(seg, sh[1], sh[2], hip[1], hip[2],
                                              return_debug, TRUE))
          /\ found' = [ pose |-> TRUE, seg |-> TRUE, mask |-> seg,
                        LSh |-> sh[1], RSh |-> sh[2],
                        LHip |-> hip[1], RHip |-> hip[2] ]
    /\ pc' = "body"
    /\ UNCHANGED <<face, skin, fv, sv, log, cloth, prev, matched, calls,
                 merged, analyses, cloth_items>>

(* =============================== skin ================================== *)
SkinDepths == {"light", "medium", "deep"}
SkinUndertones == {"warm", "cool", "neutral"}

\* A skin label is kept as the sequence of its '_'-separated parts:
\* f"{depth}_{undertone}" is <<depth, undertone>>, "unknown" is <<"unknown">>.
SkinLabel(depth, undertone) == <<depth, undertone>>

SkinLabels == { SkinLabel(d, u) : d \in SkinDepths, u \in SkinUndertones }
              \cup { <<"unknown">> }

\* SkinDepth naming the darkest depth "dark"
SkinDepth_Dark(L) ==
    IF L >= 1800 THEN "light" ELSE IF L >= 1300 THEN "medium" ELSE "dark"

\* SkinDepth with the light threshold strict (L > 180)
SkinDepth_StrictLight(L) ==
    IF L > 1800 THEN "light" ELSE IF L >= 1300 THEN "medium" ELSE "deep"

\* depth from L_mean (tenths)
SkinDepth(L) ==
    IF L >= 1800 THEN "light" ELSE IF L >= 1300 THEN "medium" ELSE "deep"

\* score = db - 0.6 * da, in hundredths, from a_mean and b_mean (tenths)
SkinScore(a, b) == 10 * (b - 1360) - 6 * (a - 1380)

\* undertone against T = 3.0
SkinUndertone(a, b) ==
    IF SkinScore(a, b) > 300 THEN "warm"
    ELSE IF SkinScore(a, b) < -300 THEN "cool"
    ELSE "neutral"

\* int(d * p / 100) for p = 25, 35: Python's int() truncates toward zero
TruncPct(d, p) ==
    IF d >= 0 THEN (d * p) \div 100 ELSE 0 - (((0 - d) * p) \div 100)

\* the central region [cx1, cy1, cx2, cy2] of the landmarks' bounding box,
\* clamped to a w x h image
SkinRoi(w, h, min_x, max_x, min_y, max_y) ==
    LET x1 == Max(0, min_x)
        y1 == Max(0, min_y)
        x2 == Min(w, max_x)
        y2 == Min(h, max_y)
    IN  [ cx1 |-> x1 + TruncPct(x2 - x1, 25),
          cx2 |-> x2 - TruncPct(x2 - x1, 25),
          cy1 |-> y1 + TruncPct(y2 - y1, 25),
          cy2 |-> y2 - TruncPct(y2 - y1, 35) ]

\* the number of indices of a[start:stop] on an axis of length n
\* (a negative index counts from the end)
SliceLen(start, stop, n) ==
    LET norm(i) == IF i < 0 THEN Max(0, i + n) ELSE Min(i, n)
    IN  Max(0, norm(stop) - norm(start))

\* roi.size of bgr[cy1:cy2, cx1:cx2]
RoiSize(roi, w, h) ==
    SliceLen(roi.cy1, roi.cy2, h) * SliceLen(roi.cx1, roi.cx2, w) * 3

\* the result of classify_skin_tone; color is the means over the region
SkinResult(detected, w, h, min_x, max_x, min_y, max_y, color, return_debug, encode_ok) ==
    IF ~detected
    THEN [ skin_tone |-> <<"unknown">>, metrics |-> None, debug |-> "no_face",
           debug_png |-> "" ]
    ELSE LET roi == SkinRoi(w, h, min_x, max_x, min_y, max_y)
         IN  IF RoiSize(roi, w, h) = 0
             THEN [ skin_tone |-> <<"unknown">>, metrics |-> None,
                    debug |-> "roi_empty", debug_png |-> "" ]
             ELSE [ skin_tone |-> SkinLabel(SkinDepth(color.L),
                                            SkinUndertone(color.a, color.b)),
                    metrics   |-> Some([ L_mean |-> color.L, a_mean |-> color.a,
                                         b_mean |-> color.b, H_mean |-> color.H,
                                         S_mean |-> color.S, V_mean |-> color.V,
                                         roi_bbox |-> <<roi.cx1, roi.cy1,
                                                        roi.cx2, roi.cy2>> ]),
                    debug     |-> "ok",
                    debug_png |-> DebugPng(return_debug, encode_ok) ]

\* extents <<min, max>> of the landmarks on one axis: inside the image, a single
\* column, across both edges, and wholly outside after or before the image
SkinExtents == { <<2, 6>>, <<0, ImgSide>>, <<3, 3>>, <<0 - 2, ImgSide + 2>>,
                 <<ImgSide + 1, ImgSide + 4>>, <<0 - 3, 0 - 1>> }

\* color means (tenths) around the thresholds of depth and of the score
SkinLs == {0, 2550} \cup NearAll({1300, 1800})
SkinAs == {1330, 1380, 1430}
SkinBs == NearAll({1300, 1330, 1360, 1390, 1420})
SkinHsv == { [H |-> 0, S |-> 0, V |-> 0], [H |-> 120, S |-> 900, V |-> 2000] }

ClassifySkin ==
    /\ pc = "idle"
    /\ \E detected \in BOOLEAN, return_debug \in BOOLEAN, encode_ok \in BOOLEAN :
       \E ex \in SkinExtents, ey \in SkinExtents :
       \E L \in SkinLs, a \in SkinAs, b \in SkinBs, hsv \in SkinHsv :
          /\ skin' = Some(SkinResult(detected, ImgSide, ImgSide, ex[1], ex[2],
                                     ey[1], ey[2],
                                     [ L |-> L, a |-> a, b |-> b,
                                       H |-> hsv.H, S |-> hsv.S, V |-> hsv.V ],
                                     return_debug, encode_ok))
          /\ found' = [ mesh |-> detected, w |-> ImgSide, h |-> ImgSide,
                        xs |-> ex, ys |-> ey ]
    /\ pc' = "skin"
    /\ UNCHANGED <<face, body, fv, sv, log, cloth, prev, matched, calls,
                 merged, analyses, cloth_items>>

(* ========================== feature vector ============================= *)
\* A dict is a function from its keys; a result handed to build_feature_vector
\* is [label |-> None (key absent) or Some(label),
\*     metrics |-> None or Some(dict of metric values)].
\* A metric value is a float (kind "num"), a string that float() parses
\* (kind "str"), both with the value in hundredths, or something float()
\* rejects, such as None or "abc" (kind "bad").

BODY_SHAPE_MAP ==
    [ inverted_triangle |-> <<1, 0, 0, 0, 0>>,
      triangle          |-> <<0, 1, 0, 0, 0>>,
      hourglass         |-> <<0, 0, 1, 0, 0>>,
      rectangle         |-> <<0, 0, 0, 1, 0>>,
      balanced          |-> <<0, 0, 0, 0, 1>>,
      unknown           |-> <<0, 0, 0, 0, 0>> ]

FACE_SHAPE_MAP ==
    [ oval    |-> <<1, 0, 0, 0, 0>>,
      round   |-> <<0, 1, 0, 0, 0>>,
      square  |-> <<0, 0, 1, 0, 0>>,
      heart   |-> <<0, 0, 0, 1, 0>>,
      oblong  |-> <<0, 0, 0, 0, 1>>,
      unknown |-> <<0, 0, 0, 0, 0>> ]

SKIN_DEPTH_MAP ==
    [ light   |-> <<1, 0, 0>>,
      medium  |-> <<0, 1, 0>>,
      deep    |-> <<0, 0, 1>>,
      unknown |-> <<0, 0, 0>> ]

\* SKIN_UNDERTONE_MAP with the positions of cool and neutral exchanged
SKIN_UNDERTONE_MAP_NeutralSecond ==
    [ warm    |-> <<1, 0, 0>>,
      cool    |-> <<0, 0, 1>>,
      neutral |-> <<0, 1, 0>>,
      unknown |-> <<0, 0, 0>> ]

SKIN_UNDERTONE_MAP ==
    [ warm    |-> <<1, 0, 0>>,
      cool    |-> <<0, 1, 0>>,
      neutral |-> <<0, 0, 1>>,
      unknown |-> <<0, 0, 0>> ]

\* d.get(key, default)
DictGet(d, key, default) == IF key \in DOMAIN d THEN d[key] ELSE default

\* res.get(label_key, "unknown")
LabelOf(res) == IF res.label = None THEN "unknown" ELSE res.label[1]

\* res.get("metrics") or {}
MetricsOf(res) == IF res.metrics = None THEN <<>> ELSE res.metrics[1]

\* _safe_get(m, key): the value in hundredths; 0.0 for an empty mapping, an
\* absent key and a value float() rejects
SafeGet(m, key) ==
    IF DOMAIN m = {} THEN 0
    ELSE IF key \notin DOMAIN m THEN 0
    ELSE IF m[key].kind = "bad" THEN 0
    ELSE m[key].val

\* the keys read from each metrics mapping, in the order they are read
BodyKeys == <<"s_h", "w_s", "w_h">>
FaceKeys == <<"face_width", "face_length", "forehead_width", "jaw_width_est",
              "ratio_len_width", "ratio_jaw_forehead">>
SkinKeys == <<"L_mean", "a_mean", "b_mean", "H_mean", "S_mean", "V_mean">>

\* [_safe_get(m, k) for k in keys]
SafeGetAll(m, keys) == [i \in 1..Len(keys) |-> SafeGet(m, keys[i])]

\* depth and undertone of a skin label: split at the first '_', each part
\* replaced by "unknown" unless it is a key of its map
SkinParts(skin_label) ==
    IF Len(skin_label) >= 2
    THEN [ depth     |-> IF skin_label[1] \in DOMAIN SKIN_DEPTH_MAP
                         THEN skin_label[1] ELSE "unknown",
           undertone |-> IF Len(skin_label) = 2
                            /\ skin_label[2] \in DOMAIN SKIN_UNDERTONE_MAP
                         THEN skin_label[2] ELSE "unknown" ]
    ELSE [ depth |-> "unknown", undertone |-> "unknown" ]

\* the skin label of a result: res.get("skin_tone", "unknown")
SkinLabelOf(res) == IF res.label = None THEN <<"unknown">> ELSE res.label[1]

\* CatVec with the face block put before the body block
CatVec_FaceFirst(face_res, body_res, skin_res) ==
    LET parts == SkinParts(SkinLabelOf(skin_res))
    IN  DictGet(FACE_SHAPE_MAP, LabelOf(face_res), FACE_SHAPE_MAP["unknown"])
        \o DictGet(BODY_SHAPE_MAP, LabelOf(body_res), BODY_SHAPE_MAP["unknown"])
        \o DictGet(SKIN_DEPTH_MAP, parts.depth, SKIN_DEPTH_MAP["unknown"])
        \o DictGet(SKIN_UNDERTONE_MAP, parts.undertone,
                   SKIN_UNDERTONE_MAP["unknown"])

\* cat_vec: body, face, skin depth, skin undertone one-hot blocks
CatVec(face_res, body_res, skin_res) ==
    LET parts == SkinParts(SkinLabelOf(skin_res))
    IN  DictGet(BODY_SHAPE_MAP, LabelOf(body_res), BODY_SHAPE_MAP["unknown"])
        \o DictGet(FACE_SHAPE_MAP, LabelOf(face_res), FACE_SHAPE_MAP["unknown"])
        \o DictGet(SKIN_DEPTH_MAP, parts.depth, SKIN_DEPTH_MAP["unknown"])
        \o DictGet(SKIN_UNDERTONE_MAP, parts.undertone,
                   SKIN_UNDERTONE_MAP["unknown"])

\* num_vec before scaling (hundredths): body, face, skin metrics
NumVec(face_res, body_res, skin_res) ==
    SafeGetAll(MetricsOf(body_res), BodyKeys)
    \o SafeGetAll(MetricsOf(face_res), FaceKeys)
    \o SafeGetAll(MetricsOf(skin_res), SkinKeys)

\* Components of full_vec are integers in units of 1e-4: 1.0 is FvOne.
FvOne == 10^4
\* numeric_scale = 0.01
NumericScale == Frac(1, 100)
\* Scaled with numeric_scale = 0.1
Scaled_Tenth(x) == (x * (FvOne \div 100) * 10) \div 100

\* a metric in hundredths times numeric_scale, in units of 1e-4
Scaled(x) == (x * (FvOne \div 100) * NumericScale.n) \div NumericScale.d

\* full_vec = cat_vec + (num_vec * numeric_scale)
FullVec(face_res, body_res, skin_res) ==
    LET cat == CatVec(face_res, body_res, skin_res)
        num == NumVec(face_res, body_res, skin_res)
    IN  [i \in 1..Len(cat) |-> cat[i] * FvOne]
        \o [i \in 1..Len(num) |-> Scaled(num[i])]

RECURSIVE SumSq(_)
SumSq(v) == IF v = <<>> THEN 0 ELSE v[1] * v[1] + SumSq(Tail(v))

\* the integer square root, by bisection of lo..hi
RECURSIVE SqrtIn(_, _, _)
SqrtIn(x, lo, hi) ==
    IF lo = hi THEN lo
    ELSE LET mid == (lo + hi + 1) \div 2
         IN  IF mid * mid <= x THEN SqrtIn(x, mid, hi) ELSE SqrtIn(x, lo, mid - 1)
ISqrt(x) == SqrtIn(x, 0, 46340)

RECURSIVE SumAbs(_)
SumAbs(v) == IF v = <<>> THEN 0 ELSE Abs(v[1]) + SumAbs(Tail(v))

\* NormPlusEps with the L1 norm in place of the Euclidean norm
NormPlusEps_L1(full_vec) == SumAbs(full_vec) * (10^8 \div FvOne) + 1

\* 1e-8, in units of 1e-8
EpsNorm == 1
\* norm = np.linalg.norm(full_vec) + 1e-8, in units of 1e-8; the square root is
\* taken down to a whole number of 1e-4 (exact whenever it is one)
NormPlusEps(full_vec) == ISqrt(SumSq(full_vec)) * (10^8 \div FvOne) + EpsNorm

\* full_vec / norm: each component the fraction of the two, both in 1e-8
Normalized(full_vec, norm) ==
    [i \in 1..Len(full_vec) |-> Frac(full_vec[i] * (10^8 \div FvOne), norm)]

\* build_feature_vector(face, body, skin), kept with its arguments and with the
\* intermediate full_vec and norm
BuildFeatureVector(face_res, body_res, skin_res) ==
    LET full_vec == FullVec(face_res, body_res, skin_res)
        norm     == NormPlusEps(full_vec)
    IN  [ face |-> face_res, body |-> body_res, skin |-> skin_res,
          full_vec |-> full_vec, norm |-> norm,
          out |-> Normalized(full_vec, norm) ]

(* the arguments drawn for build_feature_vector *)
\* the largest metric value drawn, in hundredths
MetricMax == 100
MetricVals ==
    { [kind |-> "num", val |-> 0], [kind |-> "num", val |-> MetricMax \div 2],
      [kind |-> "num", val |-> MetricMax], [kind |-> "str", val |-> MetricMax \div 2],
      [kind |-> "bad", val |-> 0] }

Range(f) == { f[i] : i \in DOMAIN f }

\* metrics mappings over the keys: null, empty, one key only, and all keys with
\* one of them holding another value than the rest
MetricDicts(keys) ==
    { None, Some(<<>>) }
    \cup { Some([k \in {key} |-> v]) : key \in Range(keys), v \in MetricVals }
    \cup { Some([k \in Range(keys) |-> IF k = key THEN v ELSE w]) :
             key \in Range(keys), v \in MetricVals, w \in MetricVals }

\* labels: absent, every label of the classifier, and one it never emits
LabelInputs(labels) == { None } \cup { Some(l) : l \in labels }

FaceInputs ==
    { [label |-> l, metrics |-> m] :
        l \in LabelInputs(FaceLabels \cup {"diamond"}), m \in MetricDicts(FaceKeys) }
BodyInputs ==
    { [label |-> l, metrics |-> m] :
        l \in LabelInputs(BodyLabels \cup {"pear"}), m \in MetricDicts(BodyKeys) }
SkinInputs ==
    { [label |-> l, metrics |-> m] :
        l \in LabelInputs(SkinLabels \cup { <<"light">>, <<"tan", "warm">>,
                                            <<"deep", "olive">>,
                                            <<"unknown", "cool">>,
                                            <<"deep", "cool", "x">> }),
        m \in MetricDicts(SkinKeys) }

\* results as the classifiers leave them without and with a detection
FaceTypical ==
    { [label |-> Some("unknown"), metrics |-> None],
      [label |-> Some("oval"),
       metrics |-> Some([k \in Range(FaceKeys) |-> [kind |-> "num", val |-> MetricMax]])] }
BodyTypical ==
    { [label |-> Some("unknown"), metrics |-> None],
      [label |-> Some("rectangle"),
       metrics |-> Some([k \in Range(BodyKeys) |-> [kind |-> "num", val |-> MetricMax]])] }
SkinTypical ==
    { [label |-> Some(<<"unknown">>), metrics |-> None],
      [label |-> Some(<<"medium", "warm">>),
       metrics |-> Some([k \in Range(SkinKeys) |-> [kind |-> "num", val |-> MetricMax]])] }

\* one of the three arguments ranges over all its drawn values, the other two
\* over the typical results
FeatureArgs ==
    { <<f, b, s>> : f \in FaceInputs, b \in BodyTypical, s \in SkinTypical }
    \cup { <<f, b, s>> : f \in FaceTypical, b \in BodyInputs, s \in SkinTypical }
    \cup { <<f, b, s>> : f \in FaceTypical, b \in BodyTypical, s \in SkinInputs }

BuildFeatures ==
    /\ pc = "idle"
    /\ \E args \in FeatureArgs :
          fv' = Some(BuildFeatureVector(args[1], args[2], args[3]))
    /\ pc' = "features"
    /\ UNCHANGED <<found, face, body, skin, sv, log, cloth, prev, matched, calls,
                 merged, analyses, cloth_items>>

(* ============================ style vector ============================= *)
\* a Python str: its text lower-cased and stripped, whether the text has
\* upper-case letters, whether it has surrounding whitespace
Str(w) == [word |-> w, upper |-> FALSE, padded |-> FALSE]

\* str.strip that leaves the surrounding whitespace in place
Strip_Keep(s) == s

Strip(s) == [s EXCEPT !.padded = FALSE]
Lower(s) == [s EXCEPT !.upper = FALSE]

\* an attribute value as JSON delivers it: None, Some(str), or a number
Num(n) == <<"number", n>>
IsStr(s) == Len(s) = 1

\* the values Python's `or` skips: None, 0 and the empty str
Falsy(s) ==
    \/ s = None
    \/ Len(s) = 2 /\ s[2] = 0
    \/ IsStr(s) /\ s[1].word = "" /\ ~s[1].padded

\* _normalize raising for None as well (no `or ""`)
NormalizeRaises_NoOr(s) == ~IsStr(s)

\* (s or "").strip() raises AttributeError: a truthy value that is no str
NormalizeRaises(s) == ~Falsy(s) /\ ~IsStr(s)

\* (s or "").strip().lower()
Normalize(s) == Lower(Strip(IF Falsy(s) THEN Str("") ELSE s[1]))

\* axis values in tenths
StyleV0(style) ==
    IF style = Str("minimal") THEN 9
    ELSE IF style = Str("street") THEN 0 - 9
    ELSE IF style \in {Str("casual"), Str("sporty")} THEN 3
    ELSE IF style \in {Str("retro"), Str("romantic")} THEN 0 - 3
    ELSE IF style = Str("formal") THEN 2
    ELSE 0

\* StyleV1 in percent instead of fractions of one
StyleV1_Percent(style) ==
    IF style \in {Str("casual"), Str("street"), Str("sporty")} THEN 80
    ELSE IF style = Str("formal") THEN 0 - 80
    ELSE IF style \in {Str("minimal"), Str("retro"), Str("romantic")} THEN 10
    ELSE 0

StyleV1(style) ==
    IF style \in {Str("casual"), Str("street"), Str("sporty")} THEN 8
    ELSE IF style = Str("formal") THEN 0 - 8
    ELSE IF style \in {Str("minimal"), Str("retro"), Str("romantic")} THEN 1
    ELSE 0

ColorGroups ==
    << {"white", "ivory", "beige", "cream"},
       {"black", "charcoal"},
       {"gray", "grey"},
       {"navy", "blue"},
       {"brown", "khaki"},
       {"pink", "red"},
       {"green", "olive"} >>

SameColorFamily(a, b) ==
    LET na == Normalize(Some(a))
        nb == Normalize(Some(b))
    IN  \E i \in 1..Len(ColorGroups) :
            /\ na \in { Str(w) : w \in ColorGroups[i] }
            /\ nb \in { Str(w) : w \in ColorGroups[i] }

soft_colors == { Str(w) : w \in {"white", "ivory", "beige", "cream", "lightgray", "gray"} }
vivid_colors ==
    { Str(w) : w \in {"red", "yellow", "green", "blue", "pink", "orange", "purple"} }

\* StyleV2 without the color-family fallback
StyleV2_NoFamily(color) ==
    IF color \in soft_colors THEN 8
    ELSE IF color \in vivid_colors THEN 0 - 8
    ELSE 0

StyleV2(color) ==
    IF color \in soft_colors THEN 8
    ELSE IF color \in vivid_colors THEN 0 - 8
    ELSE IF \E c \in soft_colors : SameColorFamily(color, c) THEN 4
    ELSE IF \E c \in vivid_colors : SameColorFamily(color, c) THEN 0 - 4
    ELSE 0

cat_map ==
    [top |-> 8, bottom |-> 4, outer |-> 0 - 2, dress |-> 6, shoes |-> 0 - 6,
     bag |-> 0 - 8, accessory |-> 0 - 4]

\* dict.get(key, default) with a str key
StrGet(d, key, default) ==
    IF \E k \in DOMAIN d : Str(k) = key
    THEN d[CHOOSE k \in DOMAIN d : Str(k) = key]
    ELSE default

StyleV3(category) == StrGet(cat_map, category, 0)

fit_map == [slim |-> 0 - 8, regular |-> 0, relaxed |-> 4, oversized |-> 8]

StyleV4(fit) == StrGet(fit_map, fit, 0)

\* StyleV5 without the "autumn" spelling
StyleV5_NoAutumn(season) ==
    IF season \in {Str("spring"), Str("summer")} THEN 9
    ELSE IF season \in {Str("fall"), Str("winter")} THEN 0 - 9
    ELSE 0

StyleV5(season) ==
    IF season \in {Str("spring"), Str("summer")} THEN 9
    ELSE IF season \in {Str("fall"), Str("autumn"), Str("winter")} THEN 0 - 9
    ELSE 0

\* style_to_vec filling a list shared by all calls: an axis the call does not
\* assign keeps what the call before left there (shown on axis v0)
style_to_vec_SharedList(style, season, color, category, fit) ==
    LET args == [style |-> style, season |-> season, color |-> color,
                 category |-> category, fit |-> fit]
        left == IF sv # None /\ ~sv[1].raised THEN sv[1].v[1] ELSE 0
    IN  IF \/ NormalizeRaises(style) \/ NormalizeRaises(season)
           \/ NormalizeRaises(color) \/ NormalizeRaises(category)
           \/ NormalizeRaises(fit)
        THEN [args |-> args, v |-> <<>>, raised |-> TRUE]
        ELSE [args |-> args,
              v |-> <<IF StyleV1(Normalize(style)) # 0
                      THEN StyleV0(Normalize(style)) ELSE left,
                      StyleV1(Normalize(style)),
                      StyleV2(Normalize(color)), StyleV3(Normalize(category)),
                      StyleV4(Normalize(fit)), StyleV5(Normalize(season))>>,
              raised |-> FALSE]

\* style_to_vec with its parameters in the order (category, style, color, fit,
\* season)
style_to_vec_SpecOrder(category, style, color, fit, season) ==
    LET args == [style |-> style, season |-> season, color |-> color,
                 category |-> category, fit |-> fit]
    IN  IF \/ NormalizeRaises(style) \/ NormalizeRaises(season)
           \/ NormalizeRaises(color) \/ NormalizeRaises(category)
           \/ NormalizeRaises(fit)
        THEN [args |-> args, v |-> <<>>, raised |-> TRUE]
        ELSE [args |-> args,
              v |-> <<StyleV0(Normalize(style)), StyleV1(Normalize(style)),
                      StyleV2(Normalize(color)), StyleV3(Normalize(category)),
                      StyleV4(Normalize(fit)), StyleV5(Normalize(season))>>,
              raised |-> FALSE]

\* the call with its arguments, the vector it returns (tenths), and whether it
\* raised instead of returning
style_to_vec(style, season, color, category, fit) ==
    LET st == Normalize(style)
        se == Normalize(season)
        co == Normalize(color)
        ca == Normalize(category)
        fi == Normalize(fit)
        args == [style |-> style, season |-> season, color |-> color,
                 category |-> category, fit |-> fit]
    IN  IF \/ NormalizeRaises(style) \/ NormalizeRaises(season)
           \/ NormalizeRaises(color) \/ NormalizeRaises(category)
           \/ NormalizeRaises(fit)
        THEN [args |-> args, v |-> <<>>, raised |-> TRUE]
        ELSE [args |-> args,
              v |-> <<StyleV0(st), StyleV1(st), StyleV2(co), StyleV3(ca),
                      StyleV4(fi), StyleV5(se)>>,
              raised |-> FALSE]

\* garment.get(key, "")
GarmentGet(garment, key) ==
    IF key \in DOMAIN garment THEN garment[key] ELSE Some(Str(""))

style_vec_from_dict(garment) ==
    style_to_vec(GarmentGet(garment, "style"), GarmentGet(garment, "season"),
                 GarmentGet(garment, "color"), GarmentGet(garment, "category"),
                 GarmentGet(garment, "fit"))

\* attribute texts: every table key, an unlisted text and the empty text
StyleWords ==
    {"minimal", "street", "casual", "sporty", "retro", "romantic", "formal",
     "vintage", ""}
SeasonWords == {"spring", "summer", "fall", "autumn", "winter", "all", "monsoon", ""}
ColorWords ==
    {"white", "ivory", "beige", "cream", "lightgray", "gray",
     "red", "yellow", "green", "blue", "pink", "orange", "purple",
     "grey", "navy", "olive", "brown", "khaki", "black", "charcoal", "teal", ""}
CategoryWords ==
    {"top", "bottom", "outer", "dress", "shoes", "bag", "accessory", "hat", ""}
FitWords == {"slim", "regular", "relaxed", "oversized", "loose", ""}

\* a text as written, in upper case, with surrounding blanks, or both
Spellings(w) == { [word |-> w, upper |-> u, padded |-> p] : u, p \in BOOLEAN }

\* a garment as the vision model describes it: each attribute in any
\* spelling; some attributes null or left out; tokens no table lists; an
\* attribute that is a number
GarmentKeys == {"style", "season", "color", "category", "fit"}
GarmentWord(k) ==
    CASE k = "style" -> "formal"
      [] k = "season" -> "winter"
      [] k = "color" -> "grey"
      [] k = "category" -> "bag"
      [] OTHER -> "relaxed"
Garments ==
    { [style |-> Some(st), season |-> Some(se), color |-> Some(co),
       category |-> Some(ca), fit |-> Some(fi)] :
        st \in Spellings("street"), se \in Spellings("autumn"),
        co \in Spellings("navy") \cup Spellings("pink") \cup Spellings("cream"),
        ca \in Spellings("shoes"), fi \in Spellings("slim") }
    \cup { [k \in ks |-> IF k \in ns THEN None ELSE Some(Str(GarmentWord(k)))] :
             ks \in SUBSET GarmentKeys, ns \in SUBSET GarmentKeys }
    \cup { [style |-> Some(Str("vintage")), season |-> Some(Str("monsoon")),
            color |-> Some(co), category |-> Some(Str("hat")),
            fit |-> Some(Str("loose"))] : co \in Spellings("teal") }
    \cup { [k \in GarmentKeys |-> IF k = j THEN Num(n) ELSE Some(Str(GarmentWord(k)))] :
             j \in GarmentKeys, n \in {0, 2} }

StyleToVec ==
    /\ pc = "idle"
    /\ \E st \in StyleWords, se \in SeasonWords, co \in ColorWords,
          ca \in CategoryWords, fi \in FitWords :
          sv' = Some(style_to_vec(Some(Str(st)), Some(Str(se)), Some(Str(co)),
                                  Some(Str(ca)), Some(Str(fi))))
    /\ pc' = "style"
    /\ UNCHANGED <<found, face, body, skin, fv, log, cloth, prev, matched, calls,
                 merged, analyses, cloth_items>>

\* attribute tuples that a caller encodes, keeps, and encodes once more later
KeptTuples ==
    { <<Some(Str("minimal")), Some(Str("summer")), Some(Str("white")),
        Some(Str("top")), Some(Str("oversized"))>>,
      <<Some(Str("formal")), Some(Str("winter")), Some(Str("black")),
        Some(Str("outer")), Some(Str("slim"))>>,
      <<Some(Str("vintage")), Some(Str("monsoon")), Some(Str("teal")),
        Some(Str("hat")), Some(Str("loose"))>>,
      <<Some(Str("")), Some(Str("all")), Some(Str("grey")),
        Some(Str("bag")), Some(Str("regular"))>>,
      <<None, Some([word |-> "fall", upper |-> TRUE, padded |-> TRUE]),
        Some(Str("navy")), None, Some(Str("relaxed"))>>,
      <<Some(Str("street")), None, Num(2), Some(Str("shoes")), Some(Str(""))>> }

\* one call of style_to_vec whose arguments and result the caller keeps
StyleToVecKept ==
    /\ pc = "idle"
    /\ prev = None
    /\ \E t \in KeptTuples :
          /\ sv' = Some(style_to_vec(t[1], t[2], t[3], t[4], t[5]))
          /\ prev' = sv'
    /\ pc' = "style"
    /\ UNCHANGED <<found, face, body, skin, fv, log, cloth, matched, calls,
                 merged, analyses, cloth_items>>

\* the kept arguments are encoded once more, after whatever calls came between
\* (the one before may just have returned: garments are encoded in a loop)
StyleToVecAgain ==
    /\ pc \in {"idle", "garment", "clothes"}
    /\ prev # None
    /\ sv' = Some(style_to_vec(prev[1].args.style, prev[1].args.season,
                               prev[1].args.color, prev[1].args.category,
                               prev[1].args.fit))
    /\ pc' = "again"
    /\ UNCHANGED <<found, face, body, skin, fv, log, cloth, prev, matched, calls,
                 merged, analyses, cloth_items>>

\* the JSON object the vision model answers for one clothing image: each
\* attribute a token, null or left out
ClothesWords ==
    [style |-> {"minimal", "formal"}, season |-> {"summer", "winter"},
     color |-> {"white", "black"}, category |-> {"top", "outer"},
     fit |-> {"oversized", "slim"}, sub_category |-> {"shirt"}]
ClothesJson ==
    UNION { { raw \in [ks -> {None} \cup { Some(Str(w)) : w \in UNION Range(ClothesWords) }] :
                \A k \in ks : raw[k] = None \/ raw[k][1].word \in ClothesWords[k] } :
            ks \in { GarmentKeys \ ms : ms \in SUBSET GarmentKeys }
                    \cup { GarmentKeys \cup {"sub_category"} } }

\* analyze_clothes_from_url from the parsed answer on: defaults for the keys
\* left out, the vector, the analysis it returns
AnalyzeClothesFromUrl ==
    /\ pc = "idle"
    /\ \E raw \in ClothesJson :
          LET category == DictGet(raw, "category", Some(Str("top")))
              sub_category == DictGet(raw, "sub_category", Some(Str("tshirt")))
              style == DictGet(raw, "style", Some(Str("minimal")))
              color == DictGet(raw, "color", Some(Str("white")))
              fit == DictGet(raw, "fit", Some(Str("regular")))
              season == DictGet(raw, "season", Some(Str("all")))
              vec == style_to_vec(style, season, color, category, fit)
          IN  /\ sv' = Some(vec)
              /\ cloth' = Some([category |-> category,
                                sub_category |-> sub_category,
                                style |-> style, color |-> color, fit |-> fit,
                                season |-> season, vector |-> vec.v])
    /\ pc' = "clothes"
    /\ UNCHANGED <<found, face, body, skin, fv, log, prev, matched, calls,
                 merged, analyses, cloth_items>>

StyleVecFromDict ==
    /\ pc = "idle"
    /\ \E garment \in Garments : sv' = Some(style_vec_from_dict(garment))
    /\ pc' = "garment"
    /\ UNCHANGED <<found, face, body, skin, fv, log, cloth, prev, matched, calls,
                 merged, analyses, cloth_items>>

(* ========================== reference matcher ========================== *)
\* vectors have whole components; a norm is taken down to a whole number of
\* 1e-4, a product of two norms is in units of 1e-8, as is the guard 1e-8
VecMax == 2
EpsCos == 1

RECURSIVE Dot(_, _)
Dot(a, b) == IF a = <<>> THEN 0 ELSE a[1] * b[1] + Dot(Tail(a), Tail(b))

\* np.linalg.norm, in units of 1e-4
Norm(a) == ISqrt(SumSq(a) * 10^8)

\* cosine dividing by the squared norm of its first argument
cosine_ByFirstNorm(a, b) == Frac(Dot(a, b) * 10^8, Norm(a) * Norm(a) + EpsCos)

\* np.dot(a, b) / (norm(a) * norm(b) + 1e-8), as a fraction
cosine(a, b) == Frac(Dot(a, b) * 10^8, Norm(a) * Norm(b) + EpsCos)

\* x * y for 0 <= x, y < 2^31 as five digits of base 10^4, the first unbounded
MulWide(x, y) ==
    LET B == 10^4
        x0 == x % B
        x1 == (x \div B) % B
        x2 == x \div (B * B)
        y0 == y % B
        y1 == (y \div B) % B
        y2 == y \div (B * B)
        e0 == x0 * y0
        e1 == x0 * y1 + x1 * y0 + e0 \div B
        e2 == x0 * y2 + x1 * y1 + x2 * y0 + e1 \div B
        e3 == x1 * y2 + x2 * y1 + e2 \div B
        e4 == x2 * y2 + e3 \div B
    IN  <<e4, e3 % B, e2 % B, e1 % B, e0 % B>>

RECURSIVE LexLt(_, _)
LexLt(a, b) ==
    IF a = <<>> THEN FALSE
    ELSE a[1] < b[1] \/ (a[1] = b[1] /\ LexLt(Tail(a), Tail(b)))

\* p < q for two scores (fractions with positive denominators)
ScoreLt(p, q) ==
    IF p.n < 0 /\ q.n >= 0 THEN TRUE
    ELSE IF p.n >= 0 /\ q.n < 0 THEN FALSE
    ELSE IF p.n >= 0 THEN LexLt(MulWide(p.n, q.d), MulWide(q.n, p.d))
    ELSE LexLt(MulWide(0 - q.n, p.d), MulWide(0 - p.n, q.d))

\* list.sort(key=score) without reverse=True: ascending, stable
RECURSIVE SortDesc_Ascending(_)
SortDesc_Ascending(sims) ==
    IF sims = <<>> THEN <<>>
    ELSE LET rest == SortDesc_Ascending(SubSeq(sims, 1, Len(sims) - 1))
             x == sims[Len(sims)]
             \* x goes behind the entries that are not larger
             at == Cardinality({ i \in 1..Len(rest) : ~ScoreLt(x[2], rest[i][2]) })
         IN  SubSeq(rest, 1, at) \o <<x>> \o SubSeq(rest, at + 1, Len(rest))

\* an ascending stable sort read backwards: equal scores come out reversed
RECURSIVE SortDesc_TiesReversed(_)
SortDesc_TiesReversed(sims) ==
    IF sims = <<>> THEN <<>>
    ELSE LET rest == SortDesc_TiesReversed(SubSeq(sims, 1, Len(sims) - 1))
             x == sims[Len(sims)]
             at == Cardinality({ i \in 1..Len(rest) : ScoreLt(x[2], rest[i][2]) })
         IN  SubSeq(rest, 1, at) \o <<x>> \o SubSeq(rest, at + 1, Len(rest))

\* sims.sort(key=lambda x: x[1], reverse=True): descending and stable, an entry
\* goes behind all earlier entries that are not smaller
RECURSIVE SortDesc(_)
SortDesc(sims) ==
    IF sims = <<>> THEN <<>>
    ELSE LET rest == SortDesc(SubSeq(sims, 1, Len(sims) - 1))
             x == sims[Len(sims)]
             at == Cardinality({ i \in 1..Len(rest) : ~ScoreLt(rest[i][2], x[2]) })
         IN  SubSeq(rest, 1, at) \o <<x>> \o SubSeq(rest, at + 1, Len(rest))

\* sims[:k]
Take(sims, k) ==
    IF k >= 0 THEN SubSeq(sims, 1, Min(k, Len(sims)))
    ELSE SubSeq(sims, 1, Max(Len(sims) + k, 0))

\* celeb_vectors is a dict: its items in iteration (insertion) order
match_user_to_references(user_vec, celeb_vectors, k) ==
    LET sims == [i \in 1..Len(celeb_vectors) |->
                   <<celeb_vectors[i][1], cosine(user_vec, celeb_vectors[i][2])>>]
    IN  [user_vec |-> user_vec, celeb_vectors |-> celeb_vectors, k |-> k,
         result |-> Take(SortDesc(sims), k)]

\* two-component vectors
Vecs == { <<x, y>> : x, y \in (0 - VecMax)..VecMax }
UserVecs == { <<1, 0>>, <<1, 1>>, <<0, 0>>, <<0 - VecMax, 1>> }
RefVecs == { <<0, 0>>, <<1, 0>>, <<VecMax, 0>>, <<0, 1>>, <<0 - 1, 1>> }

\* reference mappings: up to three ids in any insertion order, any vectors
CelebIds == {"iu", "gd", "bts"}
CelebVectors ==
    UNION { { m \in [1..n -> CelebIds \X RefVecs] :
                \A i, j \in 1..n : i # j => m[i][1] # m[j][1] } :
            n \in 0..Cardinality(CelebIds) }

Cosine ==
    /\ pc = "idle"
    /\ \E a \in Vecs, b \in Vecs :
          matched' = Some([a |-> a, b |-> b, score |-> cosine(a, b)])
    /\ pc' = "cosine"
    /\ UNCHANGED <<found, face, body, skin, fv, sv, log, cloth, prev, calls,
                 merged, analyses, cloth_items>>

MatchUserToReferences ==
    /\ pc = "idle"
    /\ \E user_vec \in UserVecs, celeb_vectors \in CelebVectors,
          k \in (0 - 1)..(Cardinality(CelebIds) + 1) :
          matched' = Some(match_user_to_references(user_vec, celeb_vectors, k))
    /\ pc' = "match"
    /\ UNCHANGED <<found, face, body, skin, fv, sv, log, cloth, prev, calls,
                 merged, analyses, cloth_items>>

(* ------------------- face, concurrent callers of the log --------------- *)
\* Requests served by different workers run classify_face_shape at the same
\* time on the same face_shape_log.csv.  A caller is at "start", has
\* "detected" a face (or is "done" without one), has "checked" the file
\* (os.path.isfile), has "opened" it for appending (which creates it), and is
\* "done" when its rows are written; the buffered rows of one caller reach the
\* file together when it is closed.
NCallers == 3
Callers == 1..NCallers

\* os.path.isfile(LOG_PATH): the file has rows or somebody has opened it
LogFileExists == log # <<>> \/ \E c \in Callers : calls[c].at = "opened"

\* mesh.process: a face or none; without one the call returns no_face
FaceDetect(c) ==
    /\ calls[c].at = "start"
    /\ \E detected \in BOOLEAN :
          calls' = [calls EXCEPT ![c].at = IF detected THEN "detected" ELSE "done",
                                 ![c].detected = detected]
    /\ UNCHANGED <<pc, found, face, body, skin, fv, sv, cloth, prev, matched, log,
                 merged, analyses, cloth_items>>

\* file_exists = os.path.isfile(LOG_PATH)
LogCheck(c) ==
    /\ calls[c].at = "detected"
    /\ calls' = [calls EXCEPT ![c].at = "checked",
                              ![c].file_exists = LogFileExists]
    /\ UNCHANGED <<pc, found, face, body, skin, fv, sv, cloth, prev, matched, log,
                 merged, analyses, cloth_items>>

\* open(LOG_PATH, "a")
LogOpen(c) ==
    /\ calls[c].at = "checked"
    /\ calls' = [calls EXCEPT ![c].at = "opened"]
    /\ UNCHANGED <<pc, found, face, body, skin, fv, sv, cloth, prev, matched, log,
                 merged, analyses, cloth_items>>

\* the header if the file was missing at the check, the values, and the close
LogWrite(c) ==
    /\ calls[c].at = "opened"
    /\ log' = log \o (IF calls[c].file_exists THEN <<>> ELSE <<"header">>)
                  \o <<"data">>
    /\ calls' = [calls EXCEPT ![c].at = "done"]
    /\ UNCHANGED <<pc, found, face, body, skin, fv, sv, cloth, prev, matched,
                 merged, analyses, cloth_items>>

(* ============================ outfit merge ============================= *)
\* An outfit JSON is a dict; its garments are dicts (functions from the keys
\* they have) of attribute values: None, Some(str) or a number.

\* it.get(key)
ItGet(it, key) == IF key \in DOMAIN it THEN it[key] ELSE None

\* outfit.get("garments", []), outfit by outfit, in one list
RECURSIVE AllGarments(_)
AllGarments(outfits) ==
    IF outfits = <<>> THEN <<>>
    ELSE (IF "garments" \in DOMAIN outfits[1] THEN outfits[1].garments ELSE <<>>)
           \o AllGarments(Tail(outfits))

\* category_map[g["category"]].append(g): a dict keeps its keys in the order
\* of their first insertion
RECURSIVE CategoryMap(_, _)
CategoryMap(gs, acc) ==
    IF gs = <<>> THEN acc
    ELSE LET g  == gs[1]
             at == { i \in 1..Len(acc) : acc[i].category = g.category }
         IN  CategoryMap(Tail(gs),
                IF at = {}
                THEN Append(acc, [category |-> g.category, items |-> <<g>>])
                ELSE [acc EXCEPT ![CHOOSE i \in at : TRUE].items = Append(@, g)])

\* [it.get(key) for it in items if it.get(key)]
RECURSIVE TruthyValues(_, _)
TruthyValues(items, key) ==
    IF items = <<>> THEN <<>>
    ELSE (IF Falsy(ItGet(items[1], key)) THEN <<>> ELSE <<ItGet(items[1], key)>>)
           \o TruthyValues(Tail(items), key)

\* collections.Counter(values): the counts, in the order the values first came
RECURSIVE Counter(_, _)
Counter(values, acc) ==
    IF values = <<>> THEN acc
    ELSE LET at == { i \in 1..Len(acc) : acc[i].value = values[1] }
         IN  Counter(Tail(values),
                IF at = {}
                THEN Append(acc, [value |-> values[1], count |-> 1])
                ELSE [acc EXCEPT ![CHOOSE i \in at : TRUE].count = @ + 1])

\* most_common(1) taking the last of the values with the highest count
MostCommon1_Last(counter) ==
    IF counter = <<>> THEN None
    ELSE counter[CHOOSE i \in 1..Len(counter) :
                    /\ \A j \in 1..Len(counter) : counter[j].count <= counter[i].count
                    /\ \A j \in (i + 1)..Len(counter) :
                          counter[j].count < counter[i].count].value

\* counter.most_common(1)[0][0] if counter else None: max() keeps the first of
\* the values with the highest count
MostCommon1(counter) ==
    IF counter = <<>> THEN None
    ELSE counter[CHOOSE i \in 1..Len(counter) :
                    /\ \A j \in 1..Len(counter) : counter[j].count <= counter[i].count
                    /\ \A j \in 1..(i - 1) :
                          counter[j].count < counter[i].count].value

\* the merged garment of one category
MergedGarment(category, items) ==
    [ category |-> category,
      name     |-> MostCommon1(Counter(TruthyValues(items, "name"), <<>>)),
      color    |-> MostCommon1(Counter(TruthyValues(items, "color"), <<>>)),
      material |-> MostCommon1(Counter(TruthyValues(items, "material"), <<>>)),
      fit      |-> MostCommon1(Counter(TruthyValues(items, "fit"), <<>>)) ]

\* merge_outfit_jsons; g["category"] raises KeyError for a garment without one
merge_outfit_jsons(outfits) ==
    LET gs == AllGarments(outfits)
    IN  IF \E i \in 1..Len(gs) : "category" \notin DOMAIN gs[i]
        THEN [outfits |-> outfits, raised |-> TRUE, garments |-> <<>>]
        ELSE LET category_map == CategoryMap(gs, <<>>)
             IN  [ outfits  |-> outfits,
                   raised   |-> FALSE,
                   garments |-> [i \in 1..Len(category_map) |->
                                   MergedGarment(category_map[i].category,
                                                 category_map[i].items)] ]

\* the drawn garments: two tops and a "Top" with attributes that agree, differ,
\* are empty, null or missing; bottoms with and without attributes; a garment
\* without category
MergeGarments ==
    { [ category |-> Some(Str("top")), name |-> Some(Str("tee")),
        color |-> Some(Str("navy")), material |-> Some(Str("cotton")),
        fit |-> Some(Str("slim")) ],
      [ category |-> Some(Str("top")), color |-> Some(Str("black")),
        material |-> Some(Str("")), fit |-> None ],
      [ category |-> Some(Str("top")), name |-> Some(Str("shirt")),
        color |-> Some(Str("navy")), material |-> Some(Str("linen")),
        fit |-> Num(0) ],
      [ category |-> Some([word |-> "top", upper |-> TRUE, padded |-> FALSE]),
        color |-> Some(Str("black")) ],
      [ category |-> Some(Str("bottom")), name |-> Some(Str("jeans")),
        color |-> Some(Str("black")), fit |-> Some(Str("regular")) ],
      [ category |-> Some(Str("bottom")) ],
      [ name |-> Some(Str("scarf")), color |-> Some(Str("red")) ] }

\* the most garments in the drawn outfits together
MaxMerged == 4

\* the drawn outfit lists: a list of garments cut in two outfits, with an
\* outfit that has no "garments" key between them
OutfitList(gs, k) ==
    << [garments |-> SubSeq(gs, 1, k)], [looks |-> <<>>],
       [garments |-> SubSeq(gs, k + 1, Len(gs))] >>

MergeOutfitJsons ==
    /\ pc = "idle"
    /\ \E n \in 0..MaxMerged :
       \E gs \in [1..n -> MergeGarments], k \in 0..n :
          merged' = Some(merge_outfit_jsons(OutfitList(gs, k)))
    /\ pc' = "merge"
    /\ UNCHANGED <<found, face, body, skin, fv, sv, cloth, prev, matched, log, calls,
                   analyses, cloth_items>>

(* ========================= user image analysis ========================= *)
\* the names each classifier module defines
ClassifierDefs ==
    [ face |-> {"_P", "draw_debug", "LOG_PATH", "log_face_shape",
                "classify_face_shape"},
      body |-> {"_P", "_seg_row_width", "draw_debug", "classify_body_shape"},
      skin |-> {"draw_debug", "classify_skin_tone"} ]

\* analyze_image_from_url on an image whose download and decoding end as
\* img.fetch says: fetch_image_bgr_from_url raises ImageDownloadError (or the
\* decoder its own error); then face_mod.classify, body_mod.classify and
\* skin_mod.classify are looked up in the classifier modules
analyze_image_from_url(img) ==
    IF img.fetch # "ok"
    THEN [raised |-> TRUE, error |-> "ImageDownloadError", res |-> None]
    ELSE IF \E mod \in DOMAIN ClassifierDefs : "classify" \notin ClassifierDefs[mod]
    THEN [raised |-> TRUE, error |-> "AttributeError", res |-> None]
    ELSE [raised |-> FALSE, error |-> "",
          res |-> Some([image_url |-> img.image_url])]

\* img.image_type.upper() == "BODY"
IsBodyType(image_type) == image_type.word = "body" /\ ~image_type.padded

\* the loop of analyze_all_body_images leaving at the first failure
RECURSIVE AnalyzeEach_StopAtFailure(_, _)
AnalyzeEach_StopAtFailure(body_images, acc) ==
    IF body_images = <<>> THEN acc
    ELSE LET r == analyze_image_from_url(body_images[1])
         IN  IF r.raised
             THEN [acc EXCEPT !.warned = Append(@, body_images[1].image_url)]
             ELSE AnalyzeEach_StopAtFailure(Tail(body_images),
                      [acc EXCEPT !.results = Append(@, r.res[1])])

\* the loop of analyze_all_body_images: a result is appended, a failure is
\* printed as a warning and the loop goes on
RECURSIVE AnalyzeEach(_, _)
AnalyzeEach(body_images, acc) ==
    IF body_images = <<>> THEN acc
    ELSE LET r == analyze_image_from_url(body_images[1])
         IN  AnalyzeEach(Tail(body_images),
                IF r.raised
                THEN [acc EXCEPT !.warned = Append(@, body_images[1].image_url)]
                ELSE [acc EXCEPT !.results = Append(@, r.res[1])])

\* analyze_all_body_images on the images fetch_user_images delivered
analyze_all_body_images(images) ==
    LET body_images == SelectSeq(images, LAMBDA img : IsBodyType(img.image_type))
        done == AnalyzeEach(body_images, [results |-> <<>>, warned |-> <<>>])
    IN  [ images |-> images, raised |-> FALSE,
          results |-> done.results, warned |-> done.warned ]

\* the drawn images: BODY in three spellings, a padded " body ", FACE; the
\* download works, fails, or delivers bytes that are no image
ImageTypes ==
    { Str("body"), [word |-> "body", upper |-> TRUE, padded |-> FALSE],
      [word |-> "body", upper |-> TRUE, padded |-> TRUE], Str("face") }
ImageFetches == {"ok", "download_error", "decode_error"}
MaxImages == 3

AnalyzeAllBodyImages ==
    /\ pc = "idle"
    /\ \E n \in 0..MaxImages :
       \E types \in [1..n -> ImageTypes], fetches \in [1..n -> ImageFetches] :
          analyses' = Some(analyze_all_body_images(
                         [i \in 1..n |-> [ image_type |-> types[i],
                                           image_url |-> i,
                                           fetch |-> fetches[i] ]]))
    /\ pc' = "analyze_all"
    /\ UNCHANGED <<found, face, body, skin, fv, sv, cloth, prev, matched, log, calls,
                   merged, cloth_items>>

(* ========================== style from outfit ========================== *)
\* the parameters of style_to_vec
StyleToVecParams == {"style", "season", "color", "category", "fit"}

\* a call of style_to_vec by keywords: Python raises TypeError for a keyword
\* that is no parameter, and for a parameter left without a value
style_to_vec_kw(kwargs) ==
    IF DOMAIN kwargs # StyleToVecParams
    THEN [args |-> kwargs, v |-> <<>>, raised |-> TRUE]
    ELSE style_to_vec(kwargs.style, kwargs.season, kwargs.color,
                      kwargs.category, kwargs.fit)

\* (g.get(key) or default).lower(), as Some(str); None when .lower() raises
\* AttributeError (a truthy value that is no str)
LowerOr(g, key, default) ==
    LET v == ItGet(g, key)
    IN  IF Falsy(v) THEN Some(Str(default))
        ELSE IF IsStr(v) THEN Some(Lower(v[1]))
        ELSE None

\* the body of the loop of outfit_to_cloth_like_items for one garment
ClothLikeItem(g) ==
    LET cat  == LowerOr(g, "category", "unknown")
        sub  == LowerOr(g, "sub_category", "unknown")
        sty  == LowerOr(g, "style", "unknown")
        col  == LowerOr(g, "color", "unknown")
        fit  == LowerOr(g, "fit", "unknown")
        seas == LowerOr(g, "season", "all")
        vec  == style_to_vec_kw([ category |-> cat, sub_category |-> sub,
                                  style |-> sty, color |-> col, fit |-> fit,
                                  season |-> seas ])
    IN  IF None \in {cat, sub, sty, col, fit, seas} \/ vec.raised
        THEN [raised |-> TRUE, item |-> None]
        ELSE [raised |-> FALSE,
              item |-> Some([ name |-> IF Falsy(ItGet(g, "name")) THEN Some(Str(""))
                                       ELSE ItGet(g, "name"),
                              category |-> cat[1], sub_category |-> sub[1],
                              style |-> sty[1], color |-> col[1], fit |-> fit[1],
                              season |-> seas[1], vector |-> vec.v ])]

\* look.get("garments", []) or [], look by look, in one list
RECURSIVE LookGarments(_)
LookGarments(looks) ==
    IF looks = <<>> THEN <<>>
    ELSE (IF "garments" \in DOMAIN looks[1] /\ looks[1].garments # None
          THEN looks[1].garments[1] ELSE <<>>)
           \o LookGarments(Tail(looks))

\* outfit_to_cloth_like_items; the first garment that raises ends the call
outfit_to_cloth_like_items(outfit_json) ==
    LET looks == IF "looks" \in DOMAIN outfit_json /\ outfit_json.looks # None
                 THEN outfit_json.looks[1] ELSE <<>>
        gs    == LookGarments(looks)
        made  == [i \in 1..Len(gs) |-> ClothLikeItem(gs[i])]
    IN  IF \E i \in 1..Len(gs) : made[i].raised
        THEN [outfit_json |-> outfit_json, raised |-> TRUE, items |-> <<>>]
        ELSE [outfit_json |-> outfit_json, raised |-> FALSE,
              items |-> [i \in 1..Len(gs) |-> made[i].item[1]]]

\* the drawn garments: every attribute given (in upper case); some missing or
\* null; none at all
LookGarmentPool ==
    { [ name |-> Some(Str("tee")),
        category |-> Some([word |-> "top", upper |-> TRUE, padded |-> FALSE]),
        sub_category |-> Some(Str("tshirt")), style |-> Some(Str("minimal")),
        color |-> Some(Str("white")), fit |-> Some(Str("oversized")),
        season |-> Some(Str("summer")) ],
      [ category |-> Some(Str("shoes")), style |-> None,
        color |-> Some(Str("")), fit |-> Some(Str("slim")) ],
      [ name |-> None ] }

\* the most garments in the looks of a drawn outfit together
MaxLookGarments == 3

\* the drawn outfit JSONs: a list of garments cut in two looks, with a look
\* whose garments are null between them; or no looks at all
OutfitJson(gs, k) ==
    [ looks |-> Some(<< [garments |-> Some(SubSeq(gs, 1, k))],
                        [garments |-> None],
                        [garments |-> Some(SubSeq(gs, k + 1, Len(gs)))] >>) ]

OutfitToClothLikeItems ==
    /\ pc = "idle"
    /\ \/ \E n \in 0..MaxLookGarments :
          \E gs \in [1..n -> LookGarmentPool], k \in 0..n :
             cloth_items' = Some(outfit_to_cloth_like_items(OutfitJson(gs, k)))
       \/ \E json \in { [garments |-> <<>>], [looks |-> None] } :
             cloth_items' = Some(outfit_to_cloth_like_items(json))
    /\ pc' = "cloth_items"
    /\ UNCHANGED <<found, face, body, skin, fv, sv, cloth, prev, matched, log, calls,
                   merged, analyses>>

(* ============================= requests ================================ *)
Init ==
    /\ pc = "idle"
    /\ found = None
    /\ face = None
    /\ body = None
    /\ skin = None
    /\ fv = None
    /\ sv = None
    /\ cloth = None
    /\ prev = None
    /\ matched = None
    /\ log = <<>>
    /\ merged = None
    /\ analyses = None
    /\ cloth_items = None
    /\ calls = [c \in Callers |->
                  [at |-> "start", detected |-> FALSE, file_exists |-> FALSE]]

\* the handler returns; its result leaves the server
Respond ==
    /\ pc # "idle"
    /\ pc' = "idle"
    /\ found' = None
    /\ face' = None
    /\ body' = None
    /\ skin' = None
    /\ fv' = None
    /\ sv' = None
    /\ cloth' = None
    /\ matched' = None
    /\ merged' = None
    /\ analyses' = None
    /\ cloth_items' = None
    /\ UNCHANGED <<prev, log, calls>>

NextClassify ==
    \/ ClassifyFace \/ ClassifyBody \/ ClassifyBodyOnMask \/ ClassifySkin
    \/ Respond

SpecClassify == Init /\ [][NextClassify]_vars

NextFeatures == BuildFeatures \/ Respond

SpecFeatures == Init /\ [][NextFeatures]_vars

NextStyle == StyleToVec \/ StyleVecFromDict \/ AnalyzeClothesFromUrl \/ Respond

SpecStyle == Init /\ [][NextStyle]_vars

NextRepeat ==
    \/ StyleToVecKept \/ StyleVecFromDict \/ AnalyzeClothesFromUrl
    \/ StyleToVecAgain \/ Respond

SpecRepeat == Init /\ [][NextRepeat]_vars

NextMatch == Cosine \/ MatchUserToReferences \/ Respond

SpecMatch == Init /\ [][NextMatch]_vars

NextServices ==
    \/ MergeOutfitJsons \/ AnalyzeAllBodyImages \/ OutfitToClothLikeItems
    \/ Respond

SpecServices == Init /\ [][NextServices]_vars

NextLog ==
    \E c \in Callers : FaceDetect(c) \/ LogCheck(c) \/ LogOpen(c) \/ LogWrite(c)

SpecLog == Init /\ [][NextLog]_vars

(* ============================== claims ================================= *)
\* a fraction equal to the threshold t (thousandths)
Eq(r, t) == Ge(r, t) /\ Le(r, t)

\* C1: for the ratios (R, J) of a detected face the label is that of the first
\* matching rule: R >= 1.40 oblong; else J < 0.90 and R >= 1.20 heart; else for
\* R <= 1.14 round if J >= 1.11, oval if 1.06 <= J < 1.11, round if J < 1.06;
\* else for R <= 1.22 square if J >= 1.07, else oval; else (1.22 < R < 1.40)
\* square if J >= 1.10, else oval.
C1_FaceFirstMatchingRule ==
    (face # None /\ face[1].metrics # None) =>
        LET R == face[1].metrics[1].ratio_len_width
            J == face[1].metrics[1].ratio_jaw_forehead
            label == face[1].face_shape
            heart == Lt(J, 900) /\ Ge(R, 1200)
        IN  /\ Ge(R, 1400) => label = "oblong"
            /\ Lt(R, 1400) => label # "oblong"
            /\ (Lt(R, 1400) /\ heart) => label = "heart"
            /\ (Le(R, 1140) /\ Ge(J, 1110)) => label = "round"
            /\ (Le(R, 1140) /\ Ge(J, 1060) /\ Lt(J, 1110)) => label = "oval"
            /\ (Le(R, 1140) /\ Lt(J, 1060)) => label = "round"
            /\ (Gt(R, 1140) /\ Le(R, 1220) /\ ~heart /\ Ge(J, 1070))
                  => label = "square"
            /\ (Gt(R, 1140) /\ Le(R, 1220) /\ ~heart /\ Lt(J, 1070))
                  => label = "oval"
            /\ (Gt(R, 1220) /\ Lt(R, 1400) /\ ~heart /\ Ge(J, 1100))
                  => label = "square"
            /\ (Gt(R, 1220) /\ Lt(R, 1400) /\ ~heart /\ Lt(J, 1100))
                  => label = "oval"

\* C1 witness: a detected face with R exactly 1.40 is labelled oblong
C1_Witness ==
    /\ pc = "face" /\ face # None /\ face[1].metrics # None
    /\ Eq(face[1].metrics[1].ratio_len_width, 1400)
    /\ face[1].face_shape = "oblong"

C3_SkinLabelFromMeans ==
    (skin # None /\ skin[1].metrics # None) =>
        LET m == skin[1].metrics[1]
            \* 100 * score, from the means in tenths
            score == 10 * (m.b_mean - 1360) - 6 * (m.a_mean - 1380)
            depth == CASE m.L_mean >= 1800 -> "light"
                       [] m.L_mean >= 1300 /\ m.L_mean < 1800 -> "medium"
                       [] m.L_mean < 1300 -> "deep"
            undertone == CASE score > 300 -> "warm"
                           [] score < -300 -> "cool"
                           [] score >= -300 /\ score <= 300 -> "neutral"
        IN  skin[1].skin_tone = <<depth, undertone>>

\* C3 witness: L exactly 180 with score exactly 3 is light_neutral
C3_Witness ==
    /\ pc = "skin" /\ skin # None /\ skin[1].metrics # None
    /\ skin[1].metrics[1].L_mean = 1800
    /\ 10 * (skin[1].metrics[1].b_mean - 1360)
         - 6 * (skin[1].metrics[1].a_mean - 1380) = 300
    /\ skin[1].skin_tone = <<"light", "neutral">>

\* C4: every classifier returns one label of its enumeration: face in {oval,
\* round, square, heart, oblong, unknown}; body in {inverted_triangle, triangle,
\* hourglass, rectangle, balanced, inverted_rectangle, unknown}; skin unknown or
\* a depth of {light, medium, deep} joined by '_' to an undertone of {warm, cool,
\* neutral}.
C4_LabelsInEnumeration ==
    /\ face # None =>
         face[1].face_shape \in
           {"oval", "round", "square", "heart", "oblong", "unknown"}
    /\ body # None =>
         body[1].body_shape \in
           {"inverted_triangle", "triangle", "hourglass", "rectangle", "balanced",
            "inverted_rectangle", "unknown"}
    /\ skin # None =>
         \/ skin[1].skin_tone = <<"unknown">>
         \/ /\ Len(skin[1].skin_tone) = 2
            /\ skin[1].skin_tone[1] \in {"light", "medium", "deep"}
            /\ skin[1].skin_tone[2] \in {"warm", "cool", "neutral"}

\* C4 witness: the skin classifier has returned a composite label
C4_Witness ==
    pc = "skin" /\ skin # None /\ skin[1].skin_tone = <<"deep", "cool">>

\* C5: when the detection yields nothing the classifier returns label unknown,
\* metrics null, an empty debug image and the tag of the cause: face without
\* face mesh no_face; body without pose landmarks no_pose; body with pose
\* landmarks but without segmentation mask no_segmentation; skin without face
\* mesh no_face.
C5_NoDetectionIsUnknown ==
    /\ (pc = "face" /\ ~found.mesh) =>
         face = Some([ face_shape |-> "unknown", metrics |-> None,
                       debug |-> "no_face", debug_png |-> "" ])
    /\ (pc = "body" /\ ~found.pose) =>
         body = Some([ body_shape |-> "unknown", metrics |-> None,
                       debug |-> "no_pose", debug_png |-> "" ])
    /\ (pc = "body" /\ found.pose /\ ~found.seg) =>
         body = Some([ body_shape |-> "unknown", metrics |-> None,
                       debug |-> "no_segmentation", debug_png |-> "" ])
    /\ (pc = "skin" /\ ~found.mesh) =>
         skin = Some([ skin_tone |-> <<"unknown">>, metrics |-> None,
                       debug |-> "no_face", debug_png |-> "" ])

\* C5 witness: a body request with pose landmarks and no segmentation mask
C5_Witness ==
    /\ pc = "body" /\ found.pose /\ ~found.seg
    /\ body # None /\ body[1].debug = "no_segmentation"

\* the number of indices i of lo..hi with v[i] = x
CountEq(v, lo, hi, x) == Cardinality({ i \in lo..hi : v[i] = x })

\* a block lo..hi of a vector is one-hot: one component 1.0, the others 0
OneHot(v, lo, hi) ==
    CountEq(v, lo, hi, FvOne) = 1 /\ CountEq(v, lo, hi, 0) = hi - lo
\* a block lo..hi of a vector is all zero
AllZero(v, lo, hi) == \A i \in lo..hi : v[i] = 0

\* C6: for every body label the classifier can emit other than unknown
\* (inverted_triangle, triangle, hourglass, rectangle, balanced,
\* inverted_rectangle) the body block of the un-normalized vector (first five
\* components) has exactly one component 1 and the rest 0, for unknown all five
\* are 0; the same for the face block with the five face labels.
C6_OneHotPerEmittedLabel ==
    fv # None =>
        LET f == fv[1]
        IN  /\ (f.body.label # None /\ f.body.label[1] \in
                  {"inverted_triangle", "triangle", "hourglass", "rectangle",
                   "balanced", "inverted_rectangle"})
                 => OneHot(f.full_vec, 1, 5)
            /\ f.body.label = Some("unknown") => AllZero(f.full_vec, 1, 5)
            /\ (f.face.label # None /\ f.face.label[1] \in
                  {"oval", "round", "square", "heart", "oblong"})
                 => OneHot(f.full_vec, 6, 10)
            /\ f.face.label = Some("unknown") => AllZero(f.full_vec, 6, 10)

\* what a metric contributes before scaling (hundredths): its value, or 0.0
\* when the mapping is null or empty, the key is absent or the value is no number
MetricOr0(res, key) ==
    IF res.metrics = None THEN 0
    ELSE IF key \notin DOMAIN res.metrics[1] THEN 0
    ELSE IF res.metrics[1][key].kind \in {"num", "str"}
         THEN res.metrics[1][key].val
    ELSE 0

\* C7: build_feature_vector returns 31 components for any results (unknown or
\* unrecognized labels and null metrics included), in the order: 0-4 body
\* one-hot, 5-9 face one-hot, 10-12 skin depth, 13-15 skin undertone, 16-18 body
\* metrics (s_h, w_s, w_h), 19-24 face metrics (face_width, face_length,
\* forehead_width, jaw_width_est, ratio_len_width, ratio_jaw_forehead), 25-30
\* skin metrics (L_mean, a_mean, b_mean, H_mean, S_mean, V_mean).
C7_FixedLayout31 ==
    fv # None =>
        LET f == fv[1]
            v == f.full_vec
            known(res, labels) == res.label # None /\ res.label[1] \in labels
            block(lo, hi, on) == IF on THEN OneHot(v, lo, hi) ELSE AllZero(v, lo, hi)
        IN  /\ Len(v) = 31
            /\ Len(f.out) = 31
            /\ block(1, 5, known(f.body, {"inverted_triangle", "triangle",
                                           "hourglass", "rectangle", "balanced"}))
            /\ block(6, 10, known(f.face, {"oval", "round", "square", "heart",
                                            "oblong"}))
            /\ block(11, 13, /\ f.skin.label # None
                             /\ Len(f.skin.label[1]) >= 2
                             /\ f.skin.label[1][1] \in {"light", "medium", "deep"})
            /\ block(14, 16, /\ f.skin.label # None
                             /\ Len(f.skin.label[1]) = 2
                             /\ f.skin.label[1][2] \in {"warm", "cool", "neutral"})
            /\ \A i \in 1..3 : (v[16 + i] # 0) => MetricOr0(f.body, BodyKeys[i]) # 0
            /\ \A i \in 1..6 : (v[19 + i] # 0) => MetricOr0(f.face, FaceKeys[i]) # 0
            /\ \A i \in 1..6 : (v[25 + i] # 0) => MetricOr0(f.skin, SkinKeys[i]) # 0
            /\ \A i \in 1..3 : (v[16 + i] = 0) => MetricOr0(f.body, BodyKeys[i]) = 0
            /\ \A i \in 1..6 : (v[19 + i] = 0) => MetricOr0(f.face, FaceKeys[i]) = 0
            /\ \A i \in 1..6 : (v[25 + i] = 0) => MetricOr0(f.skin, SkinKeys[i]) = 0

\* C7 witness: a call with an unrecognized body label and null face metrics
\* whose only body metric is w_s
C7_Witness ==
    /\ pc = "features" /\ fv # None
    /\ fv[1].body.label = Some("pear")
    /\ fv[1].face.metrics = None
    /\ fv[1].body.metrics # None
    /\ DOMAIN fv[1].body.metrics[1] = {"w_s"}
    /\ fv[1].full_vec[18] # 0

\* the output's norm is within 1e-6 of 1: 1 - |out| = (norm - |full_vec|) / norm
NormWithin1e6(f) ==
    f.norm - ISqrt(SumSq(f.full_vec)) * (10^8 \div FvOne) <= f.norm \div 10^6

\* the output is the zero vector, every quotient with a positive denominator
ZeroOutput(f) == \A i \in 1..Len(f.out) : f.out[i].n = 0 /\ f.out[i].d > 0

C9_ScaledMetricsOrZero ==
    fv # None =>
        LET f == fv[1]
            \* 0.01 * (x / 100), in units of 1 / FvOne
            hundredth(x) == (x * FvOne) \div 10000
        IN  /\ \A i \in 1..3 :
                 f.full_vec[16 + i] = hundredth(MetricOr0(f.body, BodyKeys[i]))
            /\ \A i \in 1..6 :
                 f.full_vec[19 + i] = hundredth(MetricOr0(f.face, FaceKeys[i]))
            /\ \A i \in 1..6 :
                 f.full_vec[25 + i] = hundredth(MetricOr0(f.skin, SkinKeys[i]))

\* C9 witness: a face mapping whose face_length is no number next to numbers
C9_Witness ==
    /\ pc = "features" /\ fv # None
    /\ fv[1].face.metrics # None
    /\ DOMAIN fv[1].face.metrics[1] = Range(FaceKeys)
    /\ fv[1].face.metrics[1]["face_length"].kind = "bad"
    /\ fv[1].face.metrics[1]["face_width"].kind = "num"
    /\ fv[1].full_vec[20] = MetricMax
    /\ fv[1].full_vec[21] = 0

\* a str that is already lower-case and stripped
IsNormalized(s) == Len(s) = 1 /\ ~s[1].upper /\ ~s[1].padded

\* the value (tenths) a table of text sets gives a text, 0 when none lists it
Tabled(table, w) ==
    IF \E i \in 1..Len(table) : w \in table[i][1]
    THEN table[CHOOSE i \in 1..Len(table) : w \in table[i][1]][2]
    ELSE 0

ArgWord(s) == IF IsStr(s) THEN s[1].word ELSE ""

\* every argument of the call is a str or null
StrOrNull(a) == \A k \in DOMAIN a : a[k] = None \/ IsStr(a[k])

C13_SixComponentsInUnitRange ==
    (sv # None /\ StrOrNull(sv[1].args)) =>
        /\ Len(sv[1].v) = 6
        /\ \A i \in 1..Len(sv[1].v) : 0 - 10 <= sv[1].v[i] /\ sv[1].v[i] <= 10

\* C13 witness: a garment with a null style and a recognized season
C13_Witness ==
    /\ pc = "garment" /\ sv # None
    /\ sv[1].args.style = None
    /\ sv[1].args.season = Some(Str("winter"))
    /\ sv[1].v[6] = 0 - 9

\* C14: style_to_vec and style_vec_from_dict never raise for unknown tokens,
\* missing keys or null values; an attribute whose token is not recognized
\* contributes 0.0 to every axis it controls, and a garment with no recognized
\* attribute yields the all-zero 6-vector.
C14_UnknownTokensAreNeutral ==
    (sv # None /\ StrOrNull(sv[1].args)) =>
        LET a == sv[1].args
            v == sv[1].v
            style_ok == ArgWord(a.style) \in
                {"minimal", "street", "casual", "sporty", "retro", "romantic",
                 "formal"}
            season_ok == ArgWord(a.season) \in
                {"spring", "summer", "fall", "autumn", "winter", "all"}
            color_ok == ArgWord(a.color) \in
                {"white", "ivory", "beige", "cream", "lightgray", "gray", "red",
                 "yellow", "green", "blue", "pink", "orange", "purple"}
                \cup UNION Range(ColorGroups)
            category_ok == ArgWord(a.category) \in
                {"top", "bottom", "outer", "dress", "shoes", "bag", "accessory"}
            fit_ok == ArgWord(a.fit) \in {"slim", "regular", "relaxed", "oversized"}
        IN  /\ ~sv[1].raised
            /\ ~style_ok => v[1] = 0 /\ v[2] = 0
            /\ ~color_ok => v[3] = 0
            /\ ~category_ok => v[4] = 0
            /\ ~fit_ok => v[5] = 0
            /\ ~season_ok => v[6] = 0
            /\ (~style_ok /\ ~season_ok /\ ~color_ok /\ ~category_ok /\ ~fit_ok)
                 => v = <<0, 0, 0, 0, 0, 0>>

\* C14 witness: a garment whose tokens no table lists (vintage, hat, ...)
\* encodes to zero
C14_Witness ==
    /\ pc = "garment" /\ sv # None
    /\ sv[1].args.style = Some(Str("vintage"))
    /\ sv[1].args.category = Some(Str("hat"))
    /\ ~sv[1].raised
    /\ sv[1].v = <<0, 0, 0, 0, 0, 0>>

\* C15: the result of style_to_vec equals its result on the arguments stripped
\* and lower-cased, and a null argument gives the result of the empty string.
C15_CaseAndBlankInsensitive ==
    (sv # None /\ StrOrNull(sv[1].args)) =>
        LET a == sv[1].args
            plain(s) == IF s = None THEN Some(Str("")) ELSE Some(Str(s[1].word))
            ref == style_to_vec(plain(a.style), plain(a.season), plain(a.color),
                                plain(a.category), plain(a.fit))
        IN  sv[1].v = ref.v /\ sv[1].raised = ref.raised

\* C15 witness: a garment written " STREET " for autumn has been encoded
C15_Witness ==
    /\ pc = "garment" /\ sv # None
    /\ sv[1].args.style = Some([word |-> "street", upper |-> TRUE, padded |-> TRUE])
    /\ sv[1].args.season = Some([word |-> "autumn", upper |-> FALSE, padded |-> TRUE])
    /\ sv[1].v[1] = 0 - 9
    /\ sv[1].v[6] = 0 - 9

C17_CosineSymmetric ==
    (pc = "cosine" /\ matched # None) =>
        LET a == matched[1].a
            b == matched[1].b
            zero(v) == \A i \in 1..Len(v) : v[i] = 0
        IN  /\ matched[1].score = cosine(b, a)
            /\ matched[1].score.d > 0
            /\ (zero(a) \/ zero(b)) => matched[1].score.n = 0

\* C17 witness: the cosine of two vectors of different norms, neither zero nor
\* orthogonal
C17_Witness ==
    /\ pc = "cosine" /\ matched # None
    /\ matched[1].a = <<2, 1>>
    /\ matched[1].b = <<1, 0 - 1>>
    /\ matched[1].score.n > 0

\* the position of an id in the reference mapping's iteration order
PosOf(celeb_vectors, cid) ==
    CHOOSE j \in 1..Len(celeb_vectors) : celeb_vectors[j][1] = cid

\* C18: for n references and k >= 0 match_user_to_references returns min(k, n)
\* (id, score) pairs; every returned id is a distinct key of the mapping with
\* its own cosine score; scores are non-increasing along the result; no omitted
\* reference has a strictly higher score than a returned one.
C18_TopKByScore ==
    (pc = "match" /\ matched # None /\ matched[1].k >= 0) =>
        LET refs == matched[1].celeb_vectors
            r == matched[1].result
            ids == { r[i][1] : i \in 1..Len(r) }
            score(j) == cosine(matched[1].user_vec, refs[j][2])
        IN  /\ Len(r) = Min(matched[1].k, Len(refs))
            /\ \A i \in 1..Len(r) :
                 \E j \in 1..Len(refs) : refs[j][1] = r[i][1] /\ r[i][2] = score(j)
            /\ Cardinality(ids) = Len(r)
            /\ \A i, j \in 1..Len(r) : i < j => ~ScoreLt(r[i][2], r[j][2])
            /\ \A j \in 1..Len(refs) :
                 refs[j][1] \notin ids =>
                   \A i \in 1..Len(r) : ~ScoreLt(r[i][2], score(j))

\* C18 witness: the top two of three references, the best one iterated last
C18_Witness ==
    /\ pc = "match" /\ matched # None
    /\ matched[1].k = 2
    /\ Len(matched[1].celeb_vectors) = 3
    /\ Len(matched[1].result) = 2
    /\ matched[1].result[1][1] = matched[1].celeb_vectors[3][1]
    /\ ScoreLt(matched[1].result[2][2], matched[1].result[1][2])

\* C19: references with equal scores appear in the result in the iteration order
\* of the reference mapping, and of equal-scored references the earlier ones are
\* returned; the order (higher score first, earlier reference first among
\* equals) is total, so the same inputs always give the same ordered result.
C19_StableTies ==
    (pc = "match" /\ matched # None) =>
        LET refs == matched[1].celeb_vectors
            r == matched[1].result
            ids == { r[i][1] : i \in 1..Len(r) }
            score(j) == cosine(matched[1].user_vec, refs[j][2])
            tied(p, q) == ~ScoreLt(p, q) /\ ~ScoreLt(q, p)
        IN  /\ \A i, j \in 1..Len(r) :
                 (i < j /\ tied(r[i][2], r[j][2]))
                   => PosOf(refs, r[i][1]) < PosOf(refs, r[j][1])
            /\ \A j \in 1..Len(refs) :
                 refs[j][1] \notin ids =>
                   \A i \in 1..Len(r) :
                     tied(r[i][2], score(j)) => PosOf(refs, r[i][1]) < j
            /\ r = match_user_to_references(matched[1].user_vec, refs,
                                            matched[1].k).result

\* C19 witness: three references tie with a nonzero score and the first two of
\* the mapping are returned in its order
C19_Witness ==
    /\ pc = "match" /\ matched # None
    /\ matched[1].k = 2
    /\ Len(matched[1].celeb_vectors) = 3
    /\ \A j \in 1..3 : matched[1].celeb_vectors[j][2] = <<1, 0>>
    /\ matched[1].user_vec = <<1, 1>>
    /\ matched[1].result[1][1] = matched[1].celeb_vectors[1][1]
    /\ matched[1].result[2][1] = matched[1].celeb_vectors[2][1]
    /\ matched[1].result[1][2].n > 0

\* the divisor of every ratio of a detected face or body is positive, and the
\* label is one of the enumeration
NoDivisionError ==
    /\ (face # None /\ face[1].metrics # None) =>
         /\ face[1].metrics[1].ratio_len_width.d > 0
         /\ face[1].metrics[1].ratio_jaw_forehead.d > 0
         /\ face[1].face_shape \in
              {"oval", "round", "square", "heart", "oblong", "unknown"}
    /\ (body # None /\ body[1].metrics # None) =>
         /\ body[1].metrics[1].s_h.d > 0
         /\ body[1].metrics[1].w_s.d > 0
         /\ body[1].metrics[1].w_h.d > 0
         /\ body[1].body_shape \in
              {"inverted_triangle", "triangle", "hourglass", "rectangle",
               "balanced", "inverted_rectangle", "unknown"}

\* the body result is unknown with debug ratio_outlier
IsRatioOutlier == body[1].body_shape = "unknown" /\ body[1].debug = "ratio_outlier"

\* C20 as claimed: no ratio computation raises a division error for any
\* geometry, the classifiers still return a label of their enumeration, and a
\* shoulder width or hip width of exactly 0 yields body_shape unknown with debug
\* ratio_outlier.
C20_ZeroWidthIsOutlier ==
    /\ NoDivisionError
    /\ ( /\ body # None /\ body[1].metrics # None
         /\ ( \/ body[1].metrics[1].shoulder_width_seg = 0
              \/ body[1].metrics[1].hip_width_seg = 0 ) ) => IsRatioOutlier

\* C20 amended: no ratio computation raises a division error for any geometry
\* and the classifiers still return a label of their enumeration; a shoulder
\* width of exactly 0 yields unknown with ratio_outlier, and so does a hip width
\* of exactly 0 unless the shoulder width lies in [0.6e-6, 1.9e-6] px.
C20_ZeroWidthIsOutlierAboveEps ==
    /\ NoDivisionError
    /\ (body # None /\ body[1].metrics # None) =>
         LET sw == body[1].metrics[1].shoulder_width_seg
             hw == body[1].metrics[1].hip_width_seg
         IN  /\ sw = 0 => IsRatioOutlier
             /\ (hw = 0 /\ (Gt(Frac(sw, EpsLen), 1900) \/ Lt(Frac(sw, EpsLen), 600)))
                  => IsRatioOutlier

\* C20 witness: a body whose hip row has a single mask pixel under shoulders
\* of ordinary width
C20_Witness ==
    /\ pc = "body" /\ body # None /\ body[1].metrics # None
    /\ body[1].metrics[1].hip_width_seg = 0
    /\ body[1].metrics[1].shoulder_width_seg = 100 * PxLen
    /\ IsRatioOutlier

\* the row nearest to y (hundredths of a pixel), the even one of two
NearestRow(y) ==
    CHOOSE r \in (0 - 4 * ImgSide)..(4 * ImgSide) :
        \/ 2 * Abs(100 * r - y) < 100
        \/ 2 * Abs(100 * r - y) = 100 /\ r % 2 = 0

\* the columns of row r of the mask with a value above 0.5 (none outside it)
Foreground(mask, r) ==
    IF r < 0 \/ r >= Len(mask) THEN {}
    ELSE { x \in 0..(Len(mask[r + 1]) - 1) : mask[r + 1][x + 1] > 500 }

\* x_max - x_min of a non-empty set of columns, in pixels
Extent(xs) ==
    IF xs = {} THEN 0
    ELSE (CHOOSE x \in xs : \A z \in xs : z <= x)
           - (CHOOSE x \in xs : \A z \in xs : z >= x)

\* the body request ran on a drawn mask
OnMask == pc = "body" /\ body # None /\ "mask" \in DOMAIN found

\* the y (hundredths) of the middle of a landmark pair, and of the waist
MiddleY(p, q) == 50 * (p.y + q.y)
WaistYOf(f) == (4 * MiddleY(f.LSh, f.RSh) + 6 * MiddleY(f.LHip, f.RHip)) \div 10

\* those of the five waist offsets whose row is inside the mask and has a
\* foreground pixel
GoodWaistDys(f) ==
    { dy \in {0 - 4, 0 - 2, 0, 2, 4} :
        Foreground(f.mask, NearestRow(WaistYOf(f) + 100 * dy)) # {} }

\* C21: the waist row is y_waist = 0.4 * y_shoulder + 0.6 * y_hip; the waist
\* width is the mean of the mask-row widths over exactly those of the five rows
\* y_waist + {-4, -2, 0, 2, 4} that are inside the mask and contain a
\* foreground pixel; waist_from_seg is false iff none of the five rows
\* succeeds, and then the waist width is (shoulder_width + hip_width) / 2.
C21_WaistFromFiveRows ==
    /\ (body # None /\ body[1].metrics # None) =>
         LET m == body[1].metrics[1]
         IN  ~m.waist_from_seg =>
                2 * m.waist_width_seg.n
                  = (m.shoulder_width_seg + m.hip_width_seg) * m.waist_width_seg.d
    /\ OnMask =>
         LET m == body[1].metrics[1]
             good == GoodWaistDys(found)
             w(dy) == IF dy \in good
                      THEN Extent(Foreground(found.mask,
                                    NearestRow(WaistYOf(found) + 100 * dy)))
                      ELSE 0
             total == w(0 - 4) + w(0 - 2) + w(0) + w(2) + w(4)
         IN  /\ 10 * m.y_waist = 4 * m.y_shoulder + 6 * m.y_hip
             /\ m.y_waist = WaistYOf(found)
             /\ m.waist_from_seg <=> good # {}
             /\ good # {} =>
                  m.waist_width_seg.n * Cardinality(good)
                    = total * PxLen * m.waist_width_seg.d

\* C21 witness: of the five waist rows one is outside the mask, two are inside
\* without a foreground pixel, and the mean is taken over the other two, whose
\* widths differ
C21_Witness ==
    /\ OnMask
    /\ body[1].metrics[1].waist_from_seg
    /\ Cardinality(GoodWaistDys(found)) = 2
    /\ \E dy \in {0 - 4, 0 - 2, 0, 2, 4} :
          NearestRow(WaistYOf(found) + 100 * dy) >= Len(found.mask)
    /\ \E d1 \in GoodWaistDys(found), d2 \in GoodWaistDys(found) :
          Extent(Foreground(found.mask, NearestRow(WaistYOf(found) + 100 * d1)))
            # Extent(Foreground(found.mask, NearestRow(WaistYOf(found) + 100 * d2)))
    /\ body[1].metrics[1].waist_width_seg.d = 2

\* a length d is the Euclidean distance of the points p and q (in pixels)
IsDistance(d, p, q) ==
    /\ d % PxLen = 0
    /\ (d \div PxLen) * (d \div PxLen)
         = (q.x - p.x) * (q.x - p.x) + (q.y - p.y) * (q.y - p.y)

\* the width used for a landmark pair is that of the mask row at its rounded y
\* if the row has foreground, else the landmark distance lm
WidthByRowOrLandmarks(used, lm, mask, p, q) ==
    LET fg == Foreground(mask, NearestRow(MiddleY(p, q)))
    IN  /\ IsDistance(lm, p, q)
        /\ fg # {} => used = Extent(fg) * PxLen
        /\ fg = {} => used = lm

\* C22: the shoulder (resp. hip) width used for the ratios is the extent
\* x_max - x_min between the left-most and right-most mask pixels with value
\* > 0.5 in the row at the rounded shoulder (resp. hip) y; it is the Euclidean
\* distance of the two landmarks exactly when that row is outside the mask or
\* has no pixel above the threshold.  A value of exactly 0.5 is not foreground.
C22_WidthFromMaskRow ==
    OnMask =>
        LET m == body[1].metrics[1]
        IN  /\ WidthByRowOrLandmarks(m.shoulder_width_seg, m.shoulder_width_lm,
                                     found.mask, found.LSh, found.RSh)
            /\ WidthByRowOrLandmarks(m.hip_width_seg, m.hip_width_lm,
                                     found.mask, found.LHip, found.RHip)

\* C22 witness: the shoulder row has a pixel of exactly 0.5 left of its
\* left-most foreground pixel and the mask width is used; every pixel of the
\* hip row is exactly 0.5 and the landmark distance is used
C22_Witness ==
    /\ OnMask
    /\ LET m  == body[1].metrics[1]
           rs == NearestRow(MiddleY(found.LSh, found.RSh))
           rh == NearestRow(MiddleY(found.LHip, found.RHip))
       IN  /\ Foreground(found.mask, rs) # {}
           /\ found.mask[rs + 1][1] = 500
           /\ m.shoulder_width_seg = Extent(Foreground(found.mask, rs)) * PxLen
           /\ m.shoulder_width_seg # m.shoulder_width_lm
           /\ rh >= 0 /\ rh < Len(found.mask)
           /\ \A x \in 1..Len(found.mask[rh + 1]) : found.mask[rh + 1][x] = 500
           /\ m.hip_width_seg = m.hip_width_lm
           /\ m.hip_width_lm > 0

\* the clamped bounding box of the landmarks of a skin request, and the region
\* left by trimming int(25%) of its width on both sides, int(25%) of its height
\* at the top and int(35%) at the bottom (int truncates toward zero)
ClampedBox(f) ==
    [ x1 |-> Max(0, f.xs[1]), y1 |-> Max(0, f.ys[1]),
      x2 |-> Min(f.w, f.xs[2]), y2 |-> Min(f.h, f.ys[2]) ]
IntPct(d, p) == IF d >= 0 THEN (d * p) \div 100 ELSE 0 - ((0 - d) * p) \div 100
Cropped(f) ==
    LET b == ClampedBox(f)
    IN  <<b.x1 + IntPct(b.x2 - b.x1, 25), b.y1 + IntPct(b.y2 - b.y1, 25),
          b.x2 - IntPct(b.x2 - b.x1, 25), b.y2 - IntPct(b.y2 - b.y1, 35)>>

\* a skin request on a detected face mesh has returned
SkinDone == pc = "skin" /\ skin # None /\ found.mesh

\* C23: classify_skin_tone crops the clamped landmark bounding box by int(25%
\* of width) from left and right, int(25% of height) from the top and int(35%
\* of height) from the bottom; whenever the cropped region has zero area (no
\* pixel between its left and right or its top and bottom edge) it returns
\* skin_tone unknown, metrics null and debug roi_empty, computing no color mean;
\* otherwise the region it reports is the cropped one.
C23_EmptyRegionIsRoiEmpty ==
    SkinDone =>
        LET c == Cropped(found)
        IN  IF c[3] <= c[1] \/ c[4] <= c[2]
            THEN skin = Some([ skin_tone |-> <<"unknown">>, metrics |-> None,
                               debug |-> "roi_empty", debug_png |-> "" ])
            ELSE /\ skin[1].metrics # None
                 /\ skin[1].metrics[1].roi_bbox = c

\* C29: whenever classify_skin_tone returns a label other than unknown, the
\* reported roi_bbox [cx1, cy1, cx2, cy2] satisfies 0 <= cx1 < cx2 <= image
\* width and 0 <= cy1 < cy2 <= image height, for every landmark set, also one
\* partly or wholly outside the image; and whenever the clamped bounding box has
\* positive width and height the region is non-empty.
C29_RoiInsideImage ==
    SkinDone =>
        /\ skin[1].skin_tone # <<"unknown">> =>
             LET roi_bbox == skin[1].metrics[1].roi_bbox
             IN  /\ 0 <= roi_bbox[1] /\ roi_bbox[1] < roi_bbox[3]
                 /\ roi_bbox[3] <= found.w
                 /\ 0 <= roi_bbox[2] /\ roi_bbox[2] < roi_bbox[4]
                 /\ roi_bbox[4] <= found.h
        /\ LET b == ClampedBox(found)
           IN  (b.x1 < b.x2 /\ b.y1 < b.y2) => skin[1].debug # "roi_empty"

\* C27: when the waist width falls back to the mean of shoulder and hip widths
\* (waist_from_seg = false), classify_body_shape returns neither hourglass nor
\* inverted_rectangle, for any positive shoulder and hip widths: the label is
\* one of unknown, inverted_triangle, triangle, rectangle, balanced.
C27_FallbackNeverHourglass ==
    (body # None /\ body[1].metrics # None) =>
        LET m == body[1].metrics[1]
        IN  (~m.waist_from_seg /\ m.shoulder_width_seg > 0 /\ m.hip_width_seg > 0)
              => body[1].body_shape \in
                   {"unknown", "inverted_triangle", "triangle", "rectangle",
                    "balanced"}

\* every concurrent caller has returned
AllReturned == \A c \in Callers : calls[c].at = "done"

\* C28: under any interleaving of concurrent classify_face_shape calls starting
\* from a missing log file, face_shape_log.csv has exactly one header row, as
\* its first row, followed by exactly one data row per call that detected a
\* face; calls that return no_face append nothing.  The existence check and the
\* header write of log_face_shape are not separated by another caller's check:
\* no two callers are both between a check that found no file and their write.
C28_OneHeaderUnderInterleaving ==
    /\ Cardinality({ c \in Callers :
                       calls[c].at \in {"checked", "opened"}
                       /\ ~calls[c].file_exists }) <= 1
    /\ AllReturned =>
         LET faces == Cardinality({ c \in Callers : calls[c].detected })
         IN  /\ Cardinality({ i \in 1..Len(log) : log[i] = "data" }) = faces
             /\ faces = 0 => log = <<>>
             /\ faces > 0 =>
                  /\ log[1] = "header"
                  /\ Cardinality({ i \in 1..Len(log) : log[i] = "header" }) = 1

\* the places <<outfit, garment>> of the garments of a list of outfits, and
\* their order
Places(outfits) ==
    UNION { { <<o, i>> : i \in 1..(IF "garments" \in DOMAIN outfits[o]
                                   THEN Len(outfits[o].garments) ELSE 0) } :
            o \in 1..Len(outfits) }
Before(p, q) == p[1] < q[1] \/ (p[1] = q[1] /\ p[2] < q[2])
GarmentAt(outfits, p) == outfits[p[1]].garments[p[2]]

\* a value that is there and is not empty
NonEmpty(v) == v # None /\ v # Some(Str("")) /\ v # Num(0)

\* v is the most frequent non-empty value of key among the garments of a
\* category, the first-encountered one on a tie; None when there is no value
IsMajority(v, outfits, category, key) ==
    LET P == { p \in Places(outfits) :
                 /\ GarmentAt(outfits, p).category = category
                 /\ key \in DOMAIN GarmentAt(outfits, p)
                 /\ NonEmpty(GarmentAt(outfits, p)[key]) }
        at(u) == { p \in P : GarmentAt(outfits, p)[key] = u }
    IN  IF P = {} THEN v = None
        ELSE /\ at(v) # {}
             /\ \A q \in P :
                  LET u == GarmentAt(outfits, q)[key]
                  IN  u # v =>
                        \/ Cardinality(at(u)) < Cardinality(at(v))
                        \/ /\ Cardinality(at(u)) = Cardinality(at(v))
                           /\ \E p \in at(v) : Before(p, q)

\* C24: merge_outfit_jsons returns exactly one merged garment per distinct
\* category occurring in the input outfits, in order of first appearance of
\* the category; each of name, color, material and fit of the merged garment
\* is the most frequent non-empty value among the input garments of that
\* category (the first-encountered value on a tie) and null when no garment of
\* that category has a non-empty value.
C24_MergeByMajority ==
    (merged # None /\ ~merged[1].raised) =>
        LET outfits == merged[1].outfits
            out     == merged[1].garments
            first(c) == CHOOSE p \in Places(outfits) :
                          /\ GarmentAt(outfits, p).category = c
                          /\ \A q \in Places(outfits) :
                                GarmentAt(outfits, q).category = c => ~Before(q, p)
        IN  /\ { out[i].category : i \in 1..Len(out) }
                 = { GarmentAt(outfits, p).category : p \in Places(outfits) }
            /\ \A i \in 1..Len(out), j \in 1..Len(out) :
                  i < j => Before(first(out[i].category), first(out[j].category))
            /\ \A i \in 1..Len(out) :
                  \A key \in {"name", "color", "material", "fit"} :
                     IsMajority(out[i][key], outfits, out[i].category, key)

\* C24 witness: bottom comes before top; of the three tops the first has no
\* name and the names of the others tie (the first-encountered, shirt, wins),
\* navy outvotes the black that came first; no bottom has a material
C24_Witness ==
    /\ pc = "merge" /\ merged # None /\ ~merged[1].raised
    /\ Cardinality(Places(merged[1].outfits)) = 4
    /\ Len(merged[1].garments) = 2
    /\ merged[1].garments[1].category = Some(Str("bottom"))
    /\ merged[1].garments[1].material = None
    /\ merged[1].garments[2] =
         [ category |-> Some(Str("top")), name |-> Some(Str("shirt")),
           color |-> Some(Str("navy")), material |-> Some(Str("linen")),
           fit |-> Some(Str("slim")) ]
    /\ \E p \in Places(merged[1].outfits) :
          /\ p[1] = 3
          /\ GarmentAt(merged[1].outfits, p).category = Some(Str("top"))
          /\ "color" \in DOMAIN GarmentAt(merged[1].outfits, p)
          /\ GarmentAt(merged[1].outfits, p).color = Some(Str("black"))
          /\ \A q \in Places(merged[1].outfits) :
                (GarmentAt(merged[1].outfits, q).category = Some(Str("top"))
                 /\ q # p) => Before(p, q)

GarmentsOf(json) ==
    IF "looks" \notin DOMAIN json THEN <<>>
    ELSE IF json.looks = None THEN <<>>
    ELSE LookGarments(json.looks[1])

\* the attribute of a garment lower-cased, or the default
LowerOrDefault(g, key, default) ==
    IF key \in DOMAIN g /\ NonEmpty(g[key])
    THEN [g[key][1] EXCEPT !.upper = FALSE]
    ELSE Str(default)

\* C26: outfit_to_cloth_like_items returns one item per garment of every look
\* of the outfit JSON, in order, each carrying the lower-cased category,
\* sub_category, style, color, fit and season (defaults unknown, season default
\* all) and a 6-component vector equal to the style encoder's result for those
\* attributes; it completes without error for any outfit JSON whose garments
\* are dictionaries.
C26_OneItemPerGarment ==
    cloth_items # None =>
        LET gs    == GarmentsOf(cloth_items[1].outfit_json)
            items == cloth_items[1].items
        IN  /\ ~cloth_items[1].raised
            /\ Len(items) = Len(gs)
            /\ \A i \in 1..Len(gs) :
                  /\ items[i].category = LowerOrDefault(gs[i], "category", "unknown")
                  /\ items[i].sub_category
                       = LowerOrDefault(gs[i], "sub_category", "unknown")
                  /\ items[i].style = LowerOrDefault(gs[i], "style", "unknown")
                  /\ items[i].color = LowerOrDefault(gs[i], "color", "unknown")
                  /\ items[i].fit = LowerOrDefault(gs[i], "fit", "unknown")
                  /\ items[i].season = LowerOrDefault(gs[i], "season", "all")
                  /\ Len(items[i].vector) = 6
                  /\ items[i].vector
                       = style_to_vec(Some(items[i].style), Some(items[i].season),
                                      Some(items[i].color), Some(items[i].category),
                                      Some(items[i].fit)).v

\* the nine labels f"{depth}_{undertone}" that classify_skin_tone forms
ToneLabels ==
    { <<d, u>> : d \in {"light", "medium", "deep"}, u \in {"warm", "cool", "neutral"} }

\* the skin-depth and undertone blocks (components 10-12 and 13-15) of a vector
DepthBlock(v) == <<v[11], v[12], v[13]>>
UndertoneBlock(v) == <<v[14], v[15], v[16]>>

\* three components with a 1 at position p only
HotAt(p) == [i \in 1..3 |-> IF i = p THEN FvOne ELSE 0]

\* C30: every skin label that classify_skin_tone can return is decoded
\* losslessly by build_feature_vector: for each of the 9 labels
\* <depth>_<undertone> the skin-depth block has exactly one 1 at the position of
\* that depth (light, medium, deep) and the undertone block exactly one 1 at the
\* position of that undertone (warm, cool, neutral), distinct labels give
\* distinct blocks, and the label unknown (or any label without '_' or with an
\* unrecognized part) gives zeros in the corresponding block.
C30_SkinLabelsDecodeLosslessly ==
    fv # None =>
        LET f      == fv[1]
            v      == f.full_vec
            label  == IF f.skin.label = None THEN <<"unknown">> ELSE f.skin.label[1]
            depths == <<"light", "medium", "deep">>
            tones  == <<"warm", "cool", "neutral">>
            blocksOf(l) ==
                LET w == FullVec(f.face, f.body, [f.skin EXCEPT !.label = Some(l)])
                IN  <<DepthBlock(w), UndertoneBlock(w)>>
        IN  /\ label \in ToneLabels =>
                 /\ \E p \in 1..3 : depths[p] = label[1] /\ DepthBlock(v) = HotAt(p)
                 /\ \E q \in 1..3 : tones[q] = label[2] /\ UndertoneBlock(v) = HotAt(q)
                 /\ \A other \in ToneLabels \ {label} :
                       blocksOf(other) # <<DepthBlock(v), UndertoneBlock(v)>>
            /\ Len(label) = 1 =>
                 DepthBlock(v) = <<0, 0, 0>> /\ UndertoneBlock(v) = <<0, 0, 0>>
            /\ (Len(label) >= 2 /\ label[1] \notin Range(depths)) =>
                 DepthBlock(v) = <<0, 0, 0>>
            /\ (Len(label) > 2 \/ (Len(label) = 2 /\ label[2] \notin Range(tones))) =>
                 UndertoneBlock(v) = <<0, 0, 0>>

\* C30 witness: the label deep_neutral decoded with the third position of both
\* blocks set
C30_Witness ==
    /\ pc = "features" /\ fv # None
    /\ fv[1].skin.label = Some(<<"deep", "neutral">>)
    /\ DepthBlock(fv[1].full_vec) = <<0, 0, FvOne>>
    /\ UndertoneBlock(fv[1].full_vec) = <<0, 0, FvOne>>

=============================================================================
